---- MODULE Spec2Model ----
(***************************************************************************)
(* Laugh detection and the recording session of lafter-rebuild.            *)
(*                                                                         *)
(* The recorder hook (src/src/hooks/useAudioRecorder.ts), the session      *)
(* manager that drives it (useSessionManager, src/unnamed/part_016) and    *)
(* the earlier detector of src/claude/useAudioRecorder_FIXED.ts; then the  *)
(* clip extractor (src/src/services/audio/LaughClipExtractor.ts) and the   *)
(* scoring model it asks (src/src/services/audio/YamnetService.ts).        *)
(*                                                                         *)
(* Times are milliseconds as Date.now() returns them, counted from a       *)
(* shifted origin: the page is loaded at PageLoad.  JavaScript runs each   *)
(* callback to completion, so one action is one callback (an event         *)
(* handler up to its first await that really suspends, a timer callback,   *)
(* or the continuation of an await).                                       *)
(***************************************************************************)
EXTENDS Integers, Sequences, FiniteSets

\* ---------------------------------------------------------------- constants

VOLUME_UPDATE_INTERVAL == 100
LAUGH_DURATION_MIN == 100
LAUGH_COOLDOWN == 500
FIXED_LAUGH_VOLUME_THRESHOLD == 55
FIXED_LAUGH_DURATION_MIN == 300
FIXED_LAUGH_COOLDOWN == 1500
DEFAULT_THRESHOLD == 55
\* 0.8, in tenths.
VOLUME_SMOOTHING == 8
\* Volumes are whole numbers; smoothedVolumeRef is counted in thousandths.
Milli == 1000
CLIP_DURATION_MS == 3000
\* Scores are counted in tenths: 0.4 is 4.
MIN_YAMNET_SCORE == 4
\* Samples are counted in thousandths of full scale (1.0 is FullScale), and
\* Math.pow(10, TARGET_PEAK_DB / 20) = 0.7079... is 708 of them.
FullScale == 1000
targetAmplitude == 708
LAUGHTER_INDEX == 16
BABY_LAUGHTER_INDEX == 17
GIGGLE_INDEX == 18
SNICKER_INDEX == 19
BELLY_LAUGH_INDEX == 20
CHUCKLE_INDEX == 21

\* ------------------------------------------------------------------- bounds

\* Volume samples (at the nominal cadence) the clock may run for, over all
\* the sessions of a page.
MaxTicks == 4
\* Volume samples of one session followed long enough for two laughs.
MaxRunTicks == 7
\* startSession calls of one page.
MaxStarts == 2
\* Components of one page that use useYamnet.
MaxHooks == 3
\* Samples of the steady run of the 5 s example (FIXED detector).
MaxFixedTicks == 51
\* Samples of a run at the exact cadence.
MaxLiveTicks == 12
\* startSession calls, samples and encoder chunks of a page whose whole life
\* (capture, persistence, teardown) is followed.
MaxSessions == 1
MaxCaptureTicks == 2
MaxChunks == 1
\* Sample rate (Hz) and length (samples) of a decoded recording, and the
\* latest laugh time asked for, in steps of OffsetStep ms.
MaxSampleRate == 2
MaxSourceSamples == 8
MaxOffsetSteps == 20
\* Samples per channel of a segment handed to normalizeAudio.
MaxSegmentSamples == 2
\* Laugh timestamps of one extractBestLaugh call.
MaxLaughs == 3

\* Volume samples followed with their frames, and the sessions they are of.
MaxVolumeTicks == 5
MaxVolumeSessions == 2

\* calculateVolume calls followed by themselves.
MaxEstimates == 3

\* Samples of 5 s of constant input at the cadence of 100 ms.
MaxSteadyTicks == 50

\* Date.now() when the page is loaded: far later than any cooldown.
PageLoad == 20 * VOLUME_UPDATE_INTERVAL
MaxClock == PageLoad + MaxTicks * VOLUME_UPDATE_INTERVAL
RunHorizon == PageLoad + MaxRunTicks * VOLUME_UPDATE_INTERVAL
EstimateHorizon == PageLoad + MaxEstimates * VOLUME_UPDATE_INTERVAL
SteadyHorizon == PageLoad + MaxSteadyTicks * VOLUME_UPDATE_INTERVAL
VolumeHorizon == PageLoad + MaxVolumeTicks * VOLUME_UPDATE_INTERVAL
FixedHorizon == PageLoad + MaxFixedTicks * VOLUME_UPDATE_INTERVAL
LiveHorizon == PageLoad + MaxLiveTicks * VOLUME_UPDATE_INTERVAL
CaptureHorizon == PageLoad + MaxCaptureTicks * VOLUME_UPDATE_INTERVAL
\* A timer callback is never early; it may come a whole period late.
Late == VOLUME_UPDATE_INTERVAL

NULL == -1
NoError == "none"
\* No Blob (stopRecording resolved null, or no endSession call holds one):
\* told apart from every list of chunks by the id 0, which no recorder has.
NoBlob == <<0>>

VARIABLES
    clock,              \* Date.now()
    env,                \* "ok" | "insecure" | "nomic": what the page offers
    threshold,          \* settings.audio.threshold
    \* useAudioRecorder: refs
    loudStartTimeRef, lastLaughTimeRef, laughCountRef,
    mediaRecorderRef,   \* "null" | "inactive" | "recording" | "paused"
    streamRef,          \* TRUE when the ref holds a stream
    analyserRef,        \* TRUE when the ref holds an analyser node
    volumeIntervalRef, durationIntervalRef,   \* TRUE when the ref holds a timer id
    startTimeRef,
    \* useAudioRecorder: React state
    isRecording, isPaused, duration, volume, laughCount, error,
    \* the browser's resources
    liveStreams,        \* microphone streams whose tracks are live
    volumeTimers,       \* running loudness-sampling intervals
    durationTimers,     \* running duration intervals
    \* calls in flight
    startPending,       \* startRecording calls awaiting getUserMedia
    stopPending,        \* endSession calls awaiting the recorder's stop event
    savePending,        \* endSession calls awaiting persistence
    \* useSessionManager: React state
    status, sessionId, sessionError,
    \* history
    starts,             \* startSession calls so far
    events,             \* the last two laugh events of the session, oldest first
    runClean,           \* no quiet sample since loudStartTimeRef was recorded
    earlier,            \* when the previous session's last laugh fired, or 0
    \* the page
    DEMO_MODE,          \* lib/supabase.ts: no valid Supabase credentials
    mounted,            \* the component using the hooks is mounted
    \* useAudioRecorder: audio context and encoder
    audioContextRef,    \* "null" | "running" | "closed": the state of the context the ref holds
    openContexts,       \* audio contexts constructed and not closed
    recorderId,         \* which MediaRecorder mediaRecorderRef holds (0: none)
    orphans,            \* <<id, state>> of encoders still active whose ref was overwritten
    stopping,           \* ids of the recorders whose stop event is due
    chunksRef,          \* the chunk buffer: the id of the recorder that emitted each chunk
    blob,               \* the artifact of the endSession call that last passed stop, while it persists
    \* useSessionManager: endSession calls awaiting a persistence step
    inflight,
    \* YamnetService
    model,              \* "null" | "loaded"
    isLoading,
    \* LaughClipExtractor: extractBestLaugh
    extracting,         \* position of the call: "idle" | "decoding" | "loop" | "scoring" | "exporting" | "done"
    laughTimestamps,    \* the laugh.time of its second argument, in the order given
    audioBuffer,        \* the decoded recording (sourceBuffer of extractClipSegment)
    laughIndex,         \* the laugh the for loop is at
    timestampMs,        \* argument of the last extractClipSegment call
    clipBuffer,         \* what extractClipSegment returned
    candidates,
    normalizedBuffer,   \* what normalizeAudio returned
    clip,               \* what extractBestLaugh resolved with
    scored,             \* history: every laugh the loop went through, with its score
    \* useAudioRecorder: calculateVolume
    smoothedVolumeRef,  \* in thousandths of a volume unit
    dataArray,          \* the frame calculateVolume read last: the byte every bin held
    \* useYamnet, one per component that uses the hook
    loadCalls,          \* the hook's loadModel call: "none" | "awaiting" | "resolved" | "rejected"
    isModelLoaded,      \* the hooks whose isModelLoaded is true
    laughProbability

detectorVars == <<loudStartTimeRef, lastLaughTimeRef, laughCountRef>>
refVars == <<mediaRecorderRef, streamRef, analyserRef, volumeIntervalRef, durationIntervalRef, startTimeRef>>
stateVars == <<isRecording, isPaused, duration, volume, laughCount, error>>
browserVars == <<liveStreams, volumeTimers, durationTimers>>
flightVars == <<startPending, stopPending, savePending>>
sessionVars == <<status, sessionId, sessionError>>
historyVars == <<starts, events, runClean, earlier>>
pageVars == <<DEMO_MODE, mounted>>
contextVars == <<audioContextRef, openContexts>>
encoderVars == <<recorderId, orphans, stopping, chunksRef>>
saveVars == <<blob, inflight>>
yamnetVars == <<model, isLoading>>
clipVars == <<yamnetVars, extracting, laughTimestamps, audioBuffer, laughIndex,
              timestampMs, clipBuffer, candidates, normalizedBuffer, clip, scored>>
samplingVars == <<smoothedVolumeRef, dataArray>>
hookVars == <<loadCalls, isModelLoaded, laughProbability>>
vars == <<clock, env, threshold, detectorVars, refVars, stateVars, browserVars,
          flightVars, sessionVars, historyVars, pageVars, contextVars,
          encoderVars, saveVars, clipVars, samplingVars, hookVars>>

\* ------------------------------------------------------------ the detector

\* One detected laugh, as detectLaugh logs it: the firing sample's time and
\* the start of the loud run it closes (duration = at - since).
NoEvents == << >>
Remember(log, e) == IF Len(log) < 2 THEN Append(log, e) ELSE <<log[2], e>>

\* detectLaugh with the `>` of its volume test turned into `>=`.
detectLaugh_geq(vol, now, thr, minDur, cool, loudStart, lastLaugh, count) ==
    IF vol >= thr
    THEN LET started == IF loudStart = NULL THEN now ELSE loudStart
             loudDuration == now - started
             timeSinceLastLaugh == now - lastLaugh
         IN  IF loudDuration >= minDur /\ timeSinceLastLaugh >= cool
             THEN [loudStart |-> NULL, lastLaugh |-> now, count |-> count + 1,
                   fired |-> TRUE, since |-> started]
             ELSE [loudStart |-> started, lastLaugh |-> lastLaugh, count |-> count,
                   fired |-> FALSE, since |-> started]
    ELSE [loudStart |-> NULL, lastLaugh |-> lastLaugh, count |-> count,
          fired |-> FALSE, since |-> NULL]

\* detectLaugh without the cooldown test.
detectLaugh_noCooldown(vol, now, thr, minDur, cool, loudStart, lastLaugh, count) ==
    IF vol > thr
    THEN LET started == IF loudStart = NULL THEN now ELSE loudStart
             loudDuration == now - started
         IN  IF loudDuration >= minDur
             THEN [loudStart |-> NULL, lastLaugh |-> now, count |-> count + 1,
                   fired |-> TRUE, since |-> started]
             ELSE [loudStart |-> started, lastLaugh |-> lastLaugh, count |-> count,
                   fired |-> FALSE, since |-> started]
    ELSE [loudStart |-> NULL, lastLaugh |-> lastLaugh, count |-> count,
          fired |-> FALSE, since |-> NULL]

\* detectLaugh that keeps tracking the same loud run after it fired.
detectLaugh_keepRun(vol, now, thr, minDur, cool, loudStart, lastLaugh, count) ==
    IF vol > thr
    THEN LET started == IF loudStart = NULL THEN now ELSE loudStart
             loudDuration == now - started
             timeSinceLastLaugh == now - lastLaugh
         IN  IF loudDuration >= minDur /\ timeSinceLastLaugh >= cool
             THEN [loudStart |-> started, lastLaugh |-> now, count |-> count + 1,
                   fired |-> TRUE, since |-> started]
             ELSE [loudStart |-> started, lastLaugh |-> lastLaugh, count |-> count,
                   fired |-> FALSE, since |-> started]
    ELSE [loudStart |-> NULL, lastLaugh |-> lastLaugh, count |-> count,
          fired |-> FALSE, since |-> NULL]

\* detectLaugh that does not forget the loud run on a quiet sample.
detectLaugh_noQuietReset(vol, now, thr, minDur, cool, loudStart, lastLaugh, count) ==
    IF vol > thr
    THEN LET started == IF loudStart = NULL THEN now ELSE loudStart
             loudDuration == now - started
             timeSinceLastLaugh == now - lastLaugh
         IN  IF loudDuration >= minDur /\ timeSinceLastLaugh >= cool
             THEN [loudStart |-> NULL, lastLaugh |-> now, count |-> count + 1,
                   fired |-> TRUE, since |-> started]
             ELSE [loudStart |-> started, lastLaugh |-> lastLaugh, count |-> count,
                   fired |-> FALSE, since |-> started]
    ELSE [loudStart |-> loudStart, lastLaugh |-> lastLaugh, count |-> count,
          fired |-> FALSE, since |-> NULL]

\* detectLaugh that fires once per loud run: the run stays tracked after its
\* event and fires no second one until the volume drops.
detectLaugh_oncePerRun(vol, now, thr, minDur, cool, loudStart, lastLaugh, count) ==
    IF vol > thr
    THEN LET started == IF loudStart = NULL THEN now ELSE loudStart
             loudDuration == now - started
             timeSinceLastLaugh == now - lastLaugh
         IN  IF loudDuration >= minDur /\ timeSinceLastLaugh >= cool /\ lastLaugh < started
             THEN [loudStart |-> started, lastLaugh |-> now, count |-> count + 1,
                   fired |-> TRUE, since |-> started]
             ELSE [loudStart |-> started, lastLaugh |-> lastLaugh, count |-> count,
                   fired |-> FALSE, since |-> started]
    ELSE [loudStart |-> NULL, lastLaugh |-> lastLaugh, count |-> count,
          fired |-> FALSE, since |-> NULL]

\* detectLaugh that sets the count to 1 at a detection instead of adding 1.
detectLaugh_recount(vol, now, thr, minDur, cool, loudStart, lastLaugh, count) ==
    IF vol > thr
    THEN LET started == IF loudStart = NULL THEN now ELSE loudStart
             loudDuration == now - started
             timeSinceLastLaugh == now - lastLaugh
         IN  IF loudDuration >= minDur /\ timeSinceLastLaugh >= cool
             THEN [loudStart |-> NULL, lastLaugh |-> now, count |-> 1,
                   fired |-> TRUE, since |-> started]
             ELSE [loudStart |-> started, lastLaugh |-> lastLaugh, count |-> count,
                   fired |-> FALSE, since |-> started]
    ELSE [loudStart |-> NULL, lastLaugh |-> lastLaugh, count |-> count,
          fired |-> FALSE, since |-> NULL]

\* detectLaugh: the refs after one sample, whether it counted a laugh, and
\* the start of the loud run the sample belongs to.
detectLaugh(vol, now, thr, minDur, cool, loudStart, lastLaugh, count) ==
    IF vol > thr
    THEN LET started == IF loudStart = NULL THEN now ELSE loudStart
             loudDuration == now - started
             timeSinceLastLaugh == now - lastLaugh
         IN  IF loudDuration >= minDur /\ timeSinceLastLaugh >= cool
             THEN [loudStart |-> NULL, lastLaugh |-> now, count |-> count + 1,
                   fired |-> TRUE, since |-> started]
             ELSE [loudStart |-> started, lastLaugh |-> lastLaugh, count |-> count,
                   fired |-> FALSE, since |-> started]
    ELSE [loudStart |-> NULL, lastLaugh |-> lastLaugh, count |-> count,
          fired |-> FALSE, since |-> NULL]

\* The loudness values a sample may carry: silence, exactly the threshold,
\* and just above it.
Volumes == {0, threshold, threshold + 1}

\* --------------------------------------------------------- shared helpers

\* React drops the state updates of a component that is no longer mounted.
SetState(old, new) == IF mounted THEN new ELSE old

\* The awaits of endSession after its first persistence call: the call that
\* is awaited and the message of the error that led to it (NoError for the
\* remote chain; the failed step for the local backup).
Awaits == {<<"sessions", NoError>>, <<"recordings", NoError>>}
            \cup {<<"savePendingUpload", c>> : c \in {"upload", "sessions", "recordings", "local"}}
NoCalls == [a \in Awaits |-> 0]
Await(calls, a) == [calls EXCEPT ![a] = @ + 1]
Settle(calls, a) == [calls EXCEPT ![a] = @ - 1]
\* getAudioContext that constructs a new context at every call.
getAudioContext_alwaysNew ==
    [ref |-> "running", open |-> openContexts + 1]

\* getAudioContext: the ref and the number of open contexts after the call.
\* A new context is constructed only when the ref holds none or a closed
\* one; a suspended one is resumed.
getAudioContext ==
    [ref |-> "running",
     open |-> IF audioContextRef \in {"null", "closed"}
              THEN openContexts + 1 ELSE openContexts]

\* The Blob of endSession is dropped when the last call holding one returns.
Release(first, calls) == IF first = 0 /\ calls = NoCalls THEN NoBlob ELSE blob

\* --------------------------------------------------- the clip extractor

\* An AudioBuffer: its sample rate and the samples of each channel.
Channels == 1..2
NoBuffer == [sampleRate |-> 0, channelData |-> << >>]
\* What a Float32Array holds after a read outside the source was stored in
\* it (undefined becomes NaN): the value of no sample.
NaN == 2 * FullScale + 1
\* A recording of n samples per channel whose samples all differ, so that a
\* copied window tells where it was taken.
Ramp(n, channels) ==
    [c \in 1..channels |-> [k \in 1..n |-> 100 * k - 50 * (c - 1)]]
Sources ==
    {[sampleRate |-> r, channelData |-> Ramp(n, ch)] :
        r \in 1..MaxSampleRate, n \in 1..MaxSourceSamples, ch \in Channels}
OffsetStep == 500
Offsets == {k * OffsetStep : k \in 0..MaxOffsetSteps}

length(buffer) == Len(buffer.channelData[1])
numberOfChannels(buffer) == Len(buffer.channelData)
clipDurationSamples(sampleRate) == (CLIP_DURATION_MS * sampleRate) \div 1000
centerSample(sampleRate, ms) == (ms * sampleRate) \div 1000
\* sourceData[index], 0-based as in the code.
Read(sourceData, index) ==
    IF index + 1 \in 1..Len(sourceData) THEN sourceData[index + 1] ELSE NaN

\* The window start after the two bounds checks (lines 191-199).
startSample(sourceBuffer, ms) ==
    LET clipSamples == clipDurationSamples(sourceBuffer.sampleRate)
        centered == centerSample(sourceBuffer.sampleRate, ms) - (clipSamples \div 2)
        fromZero == IF centered < 0 THEN 0 ELSE centered
    IN  IF fromZero + clipSamples > length(sourceBuffer)
        THEN length(sourceBuffer) - clipSamples ELSE fromZero

\* extractClipSegment with the upper bounds check left out.
extractClipSegment_noEndClamp(sourceBuffer, ms) ==
    LET clipSamples == clipDurationSamples(sourceBuffer.sampleRate)
        centered == centerSample(sourceBuffer.sampleRate, ms) - (clipSamples \div 2)
        start == IF centered < 0 THEN 0 ELSE centered
    IN  IF start < 0 \/ clipSamples > length(sourceBuffer)
        THEN NoBuffer
        ELSE [sampleRate |-> sourceBuffer.sampleRate,
              channelData |->
                [c \in 1..numberOfChannels(sourceBuffer) |->
                    [i \in 1..clipSamples |->
                        Read(sourceBuffer.channelData[c], start + i - 1)]]]

\* extractClipSegment that centres the window one sample late.
extractClipSegment_offCentre(sourceBuffer, ms) ==
    LET clipSamples == clipDurationSamples(sourceBuffer.sampleRate)
        centered == centerSample(sourceBuffer.sampleRate, ms) - (clipSamples \div 2) + 1
        fromZero == IF centered < 0 THEN 0 ELSE centered
        start == IF fromZero + clipSamples > length(sourceBuffer)
                 THEN length(sourceBuffer) - clipSamples ELSE fromZero
    IN  IF start < 0 \/ clipSamples > length(sourceBuffer)
        THEN NoBuffer
        ELSE [sampleRate |-> sourceBuffer.sampleRate,
              channelData |->
                [c \in 1..numberOfChannels(sourceBuffer) |->
                    [i \in 1..clipSamples |->
                        Read(sourceBuffer.channelData[c], start + i - 1)]]]

\* extractClipSegment that gives up when the centred window does not fit.
extractClipSegment_noClamp(sourceBuffer, ms) ==
    LET clipSamples == clipDurationSamples(sourceBuffer.sampleRate)
        start == centerSample(sourceBuffer.sampleRate, ms) - (clipSamples \div 2)
    IN  IF start < 0 \/ start + clipSamples > length(sourceBuffer)
        THEN NoBuffer
        ELSE [sampleRate |-> sourceBuffer.sampleRate,
              channelData |->
                [c \in 1..numberOfChannels(sourceBuffer) |->
                    [i \in 1..clipSamples |->
                        Read(sourceBuffer.channelData[c], start + i - 1)]]]

\* extractClipSegment: null, or a new buffer of clipDurationSamples samples
\* per channel copied from startSample on.
extractClipSegment(sourceBuffer, ms) ==
    LET clipSamples == clipDurationSamples(sourceBuffer.sampleRate)
        start == startSample(sourceBuffer, ms)
    IN  IF start < 0 \/ clipSamples > length(sourceBuffer)
        THEN NoBuffer
        ELSE [sampleRate |-> sourceBuffer.sampleRate,
              channelData |->
                [c \in 1..numberOfChannels(sourceBuffer) |->
                    [i \in 1..clipSamples |->
                        Read(sourceBuffer.channelData[c], start + i - 1)]]]

\* A sample times a gain: the exact quotient num / den, with den > 0.
Abs(x) == IF x < 0 THEN -x ELSE x
peakOf(inputData) ==
    IF \A i \in 1..Len(inputData) : inputData[i] = 0 THEN 0
    ELSE CHOOSE p \in {Abs(inputData[i]) : i \in 1..Len(inputData)} :
            \A i \in 1..Len(inputData) : Abs(inputData[i]) <= p
\* Math.min(targetAmplitude / peak, 1.0), or 1.0 for a silent channel.
gainFor(peak) ==
    IF peak > 0 /\ targetAmplitude < peak
    THEN [num |-> targetAmplitude, den |-> peak]
    ELSE [num |-> 1, den |-> 1]
Times(sample, gain) == [num |-> sample * gain.num, den |-> gain.den]
\* A segment handed to normalizeAudio.
SampleLevels == {-FullScale, -(FullScale \div 2), 0, FullScale \div 2, FullScale}
Segments ==
    {[sampleRate |-> 1, channelData |-> d] :
        d \in UNION {[1..ch -> [1..n -> SampleLevels]] :
                        ch \in Channels, n \in 1..MaxSegmentSamples}}

\* normalizeAudio whose gain is not capped at 1.0.
normalizeAudio_noCeiling(buffer) ==
    [sampleRate |-> buffer.sampleRate,
     channelData |->
        [channel \in 1..numberOfChannels(buffer) |->
            LET inputData == buffer.channelData[channel]
                peak == peakOf(inputData)
                gain == IF peak > 0 THEN [num |-> targetAmplitude, den |-> peak]
                        ELSE [num |-> 1, den |-> 1]
            IN  [i \in 1..Len(inputData) |-> Times(inputData[i], gain)]]]

\* normalizeAudio: a new buffer; for each channel, the channel's own peak,
\* the gain for that peak, and every sample of the channel times that gain.
normalizeAudio(buffer) ==
    [sampleRate |-> buffer.sampleRate,
     channelData |->
        [channel \in 1..numberOfChannels(buffer) |->
            LET inputData == buffer.channelData[channel]
                gain == gainFor(peakOf(inputData))
            IN  [i \in 1..Len(inputData) |-> Times(inputData[i], gain)]]]

\* ------------------------------------------------------ the scoring model

\* meanScores.dataSync() at the six laughter classes, in tenths; each class
\* score of the model lies in [0, 1].
LaughterClasses == {LAUGHTER_INDEX, BABY_LAUGHTER_INDEX, GIGGLE_INDEX,
                    SNICKER_INDEX, BELLY_LAUGH_INDEX, CHUCKLE_INDEX}
ScoreValues(laughter, giggle) ==
    [k \in LaughterClasses |->
        IF k = LAUGHTER_INDEX THEN laughter
        ELSE IF k = GIGGLE_INDEX THEN giggle ELSE 0]
ModelOutputs == {ScoreValues(l, g) : l \in {0, 3, 9}, g \in {0, 2}}

\* predict that asks the model whether it is loaded or not.
predict_ignoresLoad(m, scoreValues) ==
    scoreValues[LAUGHTER_INDEX] + scoreValues[BABY_LAUGHTER_INDEX]
        + scoreValues[GIGGLE_INDEX] + scoreValues[SNICKER_INDEX]
        + scoreValues[BELLY_LAUGH_INDEX] + scoreValues[CHUCKLE_INDEX]

\* predict: 0 without a model, else the sum of the six class scores.
predict(m, scoreValues) ==
    IF m = "null" THEN 0
    ELSE scoreValues[LAUGHTER_INDEX] + scoreValues[BABY_LAUGHTER_INDEX]
            + scoreValues[GIGGLE_INDEX] + scoreValues[SNICKER_INDEX]
            + scoreValues[BELLY_LAUGH_INDEX] + scoreValues[CHUCKLE_INDEX]

\* ------------------------------------------------------- extractBestLaugh

\* What extractBestLaugh resolves with: null, or the ExtractedClip (the bytes
\* of its audioBlob, the encoding of normalizedBuffer, are left out).
TARGET_PEAK_DB == -3
NoClip == [duration |-> 0, yamnetScore |-> 0, timestamp |-> NULL, normalizedPeak |-> 0]
NoCandidates == << >>
LaughTimes == {2 * OffsetStep, 8 * OffsetStep}
LaughLists == UNION {[1..n -> LaughTimes] : n \in 0..MaxLaughs}
\* Decoded recordings of a call: one too short for a clip, one of exactly a
\* clip, one longer.
PassSources ==
    {s \in Sources :
        /\ s.sampleRate = 1 /\ numberOfChannels(s) = 1
        /\ length(s) \in {clipDurationSamples(1) - 1, clipDurationSamples(1), MaxSourceSamples}}

\* candidates.sort((a, b) => b.score - a.score) of a stable sort: descending
\* scores, equal scores in the order they were pushed.
RECURSIVE sortByScore(_)
InsertByScore(sorted, c) ==
    LET ahead == {k \in 1..Len(sorted) : sorted[k].score >= c.score}
        n == Cardinality(ahead)
    IN  SubSeq(sorted, 1, n) \o <<c>> \o SubSeq(sorted, n + 1, Len(sorted))
sortByScore(list) ==
    IF list = << >> THEN << >>
    ELSE InsertByScore(sortByScore(SubSeq(list, 1, Len(list) - 1)), list[Len(list)])

\* The components of the page that use useYamnet.
Hooks == 1..MaxHooks

\* ------------------------------------------------------------------- Init

\* The hooks of a page just loaded.
InitHook ==
    /\ clock = PageLoad
    /\ env \in {"ok", "insecure", "nomic"}
    /\ threshold = DEFAULT_THRESHOLD
    /\ loudStartTimeRef = NULL /\ lastLaughTimeRef = 0 /\ laughCountRef = 0
    /\ mediaRecorderRef = "null" /\ streamRef = FALSE /\ analyserRef = FALSE
    /\ volumeIntervalRef = FALSE /\ durationIntervalRef = FALSE
    /\ startTimeRef = 0
    /\ isRecording = FALSE /\ isPaused = FALSE /\ duration = 0 /\ volume = 0
    /\ laughCount = 0 /\ error = NoError
    /\ liveStreams = 0 /\ volumeTimers = 0 /\ durationTimers = 0
    /\ startPending = 0 /\ stopPending = 0 /\ savePending = 0
    /\ status = "idle" /\ sessionId = 0 /\ sessionError = NoError
    /\ starts = 0 /\ events = NoEvents /\ runClean = TRUE /\ earlier = 0
    /\ DEMO_MODE \in BOOLEAN
    /\ mounted = TRUE
    /\ audioContextRef = "null" /\ openContexts = 0
    /\ recorderId = 0 /\ orphans = {} /\ stopping = {} /\ chunksRef = << >>
    /\ blob = NoBlob /\ inflight = NoCalls
    /\ loadCalls = [h \in Hooks |-> "none"] /\ isModelLoaded = {}
    /\ laughProbability = [h \in Hooks |-> 0]

\* No model asked for, no clip asked for.
InitClip ==
    /\ model = "null" /\ isLoading = FALSE
    /\ extracting = "idle" /\ laughTimestamps = << >> /\ laughIndex = 0
    /\ audioBuffer = NoBuffer /\ timestampMs = 0
    /\ clipBuffer = NoBuffer /\ candidates = NoCandidates
    /\ normalizedBuffer = NoBuffer /\ clip = NoClip /\ scored = << >>

\* smoothedVolumeRef as useRef(0) made it, no frame read.
InitSampling == smoothedVolumeRef = 0 /\ dataArray = 0

Init == InitHook /\ InitSampling /\ InitClip

\* ------------------------------------------------- useSessionManager: start

\* isSecureContext() and hasMicrophone(): the reason startRecording throws
\* before it asks for the microphone, or NoError.
PreflightError == IF env = "insecure" THEN "https"
                  ELSE IF env = "nomic" THEN "nomic" ELSE NoError

\* startSession -> startRecording, up to `await getUserMedia`.  A throw of
\* the preflight checks is caught by startRecording (which records the
\* message and rethrows) and then by startSession, all before any other
\* callback can run.
StartSession ==
    /\ mounted
    /\ starts < MaxStarts
    /\ starts' = starts + 1
    /\ sessionId' = starts + 1
    /\ error' = PreflightError
    /\ IF PreflightError # NoError
       THEN /\ status' = "error"
            /\ sessionError' = PreflightError
            /\ UNCHANGED startPending
       ELSE /\ status' = "recording"
            /\ sessionError' = NoError
            /\ startPending' = startPending + 1
    /\ UNCHANGED <<clock, env, samplingVars, hookVars, clipVars, threshold, detectorVars, refVars, browserVars,
                   isRecording, isPaused, duration, volume, laughCount,
                   stopPending, savePending, events, runClean, earlier,
                   pageVars, contextVars, encoderVars, saveVars>>

\* GetUserMediaResolved that leaves lastLaughTimeRef as the last session set it.
GetUserMediaResolved_keepLastLaugh ==
    /\ startPending > 0
    /\ startPending' = startPending - 1
    /\ streamRef' = TRUE /\ liveStreams' = liveStreams + 1
    /\ audioContextRef' = getAudioContext.ref /\ openContexts' = getAudioContext.open
    /\ analyserRef' = TRUE
    /\ mediaRecorderRef' = "recording"
    /\ recorderId' = recorderId + 1
    /\ orphans' = IF mediaRecorderRef \in {"recording", "paused"}
                  THEN orphans \cup {<<recorderId, mediaRecorderRef>>} ELSE orphans
    /\ chunksRef' = << >>
    /\ startTimeRef' = clock
    /\ durationIntervalRef' = TRUE /\ durationTimers' = durationTimers + 1
    /\ volumeIntervalRef' = TRUE /\ volumeTimers' = volumeTimers + 1
    /\ laughCountRef' = 0 /\ loudStartTimeRef' = NULL /\ UNCHANGED lastLaughTimeRef
    /\ isRecording' = SetState(isRecording, TRUE) /\ isPaused' = SetState(isPaused, FALSE)
    /\ duration' = SetState(duration, 0) /\ laughCount' = SetState(laughCount, 0)
    /\ events' = NoEvents /\ runClean' = TRUE
    /\ earlier' = IF events = NoEvents THEN earlier ELSE events[Len(events)].at
    /\ UNCHANGED <<clock, env, samplingVars, hookVars, clipVars, threshold, volume, error, stopPending, savePending,
                   sessionVars, starts, pageVars, stopping, saveVars>>

\* startRecording after getUserMedia resolved: everything from
\* `streamRef.current = stream` to the final setState.
GetUserMediaResolved ==
    /\ startPending > 0
    /\ startPending' = startPending - 1
    /\ streamRef' = TRUE /\ liveStreams' = liveStreams + 1
    /\ audioContextRef' = getAudioContext.ref /\ openContexts' = getAudioContext.open
    /\ analyserRef' = TRUE
    /\ mediaRecorderRef' = "recording"
    /\ recorderId' = recorderId + 1
    /\ orphans' = IF mediaRecorderRef \in {"recording", "paused"}
                  THEN orphans \cup {<<recorderId, mediaRecorderRef>>} ELSE orphans
    /\ chunksRef' = << >>
    /\ startTimeRef' = clock
    /\ durationIntervalRef' = TRUE /\ durationTimers' = durationTimers + 1
    /\ volumeIntervalRef' = TRUE /\ volumeTimers' = volumeTimers + 1
    /\ laughCountRef' = 0 /\ loudStartTimeRef' = NULL /\ lastLaughTimeRef' = 0
    /\ isRecording' = SetState(isRecording, TRUE) /\ isPaused' = SetState(isPaused, FALSE)
    /\ duration' = SetState(duration, 0) /\ laughCount' = SetState(laughCount, 0)
    /\ events' = NoEvents /\ runClean' = TRUE
    /\ earlier' = IF events = NoEvents THEN earlier ELSE events[Len(events)].at
    /\ UNCHANGED <<clock, env, samplingVars, hookVars, clipVars, threshold, volume, error, stopPending, savePending,
                   sessionVars, starts, pageVars, stopping, saveVars>>

\* GetUserMediaRejected whose catch blocks record no message.
GetUserMediaRejected_silent ==
    /\ startPending > 0
    /\ startPending' = startPending - 1
    /\ error' = error
    /\ status' = SetState(status, "error") /\ sessionError' = sessionError
    /\ UNCHANGED <<clock, env, samplingVars, hookVars, clipVars, threshold, detectorVars, refVars, browserVars,
                   isRecording, isPaused, duration, volume, laughCount,
                   stopPending, savePending, sessionId, historyVars,
                   pageVars, contextVars, encoderVars, saveVars>>

\* getUserMedia rejected (the user denied the microphone): startRecording's
\* catch, then startSession's catch.
GetUserMediaRejected ==
    /\ startPending > 0
    /\ startPending' = startPending - 1
    /\ error' = SetState(error, "denied")
    /\ status' = SetState(status, "error") /\ sessionError' = SetState(sessionError, "denied")
    /\ UNCHANGED <<clock, env, samplingVars, hookVars, clipVars, threshold, detectorVars, refVars, browserVars,
                   isRecording, isPaused, duration, volume, laughCount,
                   stopPending, savePending, sessionId, historyVars,
                   pageVars, contextVars, encoderVars, saveVars>>

\* getUserMedia resolved, and then the MediaRecorder cannot be constructed
\* (or started) for the stream: the stream, the audio context and the
\* analyser are already in place when startRecording's catch runs.
MediaRecorderThrows ==
    /\ startPending > 0
    /\ startPending' = startPending - 1
    /\ streamRef' = TRUE /\ liveStreams' = liveStreams + 1
    /\ audioContextRef' = getAudioContext.ref /\ openContexts' = getAudioContext.open
    /\ analyserRef' = TRUE
    /\ error' = SetState(error, "recorder")
    /\ status' = SetState(status, "error") /\ sessionError' = SetState(sessionError, "recorder")
    /\ UNCHANGED <<clock, env, samplingVars, hookVars, clipVars, threshold, detectorVars, mediaRecorderRef,
                   volumeIntervalRef, durationIntervalRef, startTimeRef,
                   volumeTimers, durationTimers,
                   isRecording, isPaused, duration, volume, laughCount,
                   stopPending, savePending, sessionId, historyVars,
                   pageVars, encoderVars, saveVars>>

\* ------------------------------------------------------------- the timers

\* How much later than the previous callback a sampling callback runs.  Two
\* intervals (a leaked one beside the current one) may run back to back.
Steps == {VOLUME_UPDATE_INTERVAL, VOLUME_UPDATE_INTERVAL + Late}
            \cup (IF volumeTimers > 1 THEN {0} ELSE {})

\* calculateVolume: 0 without an analyser, else the smoothed loudness.  Where
\* the detector is followed the loudness is any of Volumes, and the frames
\* behind it and smoothedVolumeRef are left aside; VolumeTick follows them.
Samples == IF analyserRef THEN Volumes ELSE {0}

\* One period of the two intervals startRecording creates together with the
\* same delay, d ms after the previous one and reading loudness v: the
\* duration callback (the code keeps seconds; the model, ms), then the volume
\* callback: calculateVolume, setState, detectLaugh.
Sample(d, v, thr, minDur, cool, horizon) ==
    /\ clock + d <= horizon
    /\ clock' = clock + d
    /\ duration' = IF durationTimers > 0 THEN SetState(duration, clock' - startTimeRef)
                   ELSE duration
    /\ volume' = SetState(volume, v)
    /\ LET r == detectLaugh(v, clock', thr, minDur, cool,
                            loudStartTimeRef, lastLaughTimeRef, laughCountRef)
       IN  /\ loudStartTimeRef' = r.loudStart
           /\ lastLaughTimeRef' = r.lastLaugh
           /\ laughCountRef' = r.count
           /\ laughCount' = IF r.fired THEN SetState(laughCount, r.count) ELSE laughCount
           /\ events' = IF r.fired
                        THEN Remember(events, [at |-> clock', since |-> r.since])
                        ELSE events
           /\ runClean' = IF r.loudStart = NULL \/ loudStartTimeRef = NULL THEN TRUE
                          ELSE IF v <= thr THEN FALSE ELSE runClean
    /\ UNCHANGED <<env, hookVars, clipVars, threshold, refVars, browserVars, flightVars, sessionVars,
                   isRecording, isPaused, error, starts, earlier,
                   pageVars, contextVars, encoderVars, saveVars>>

TimerTick ==
    /\ volumeTimers > 0
    /\ UNCHANGED samplingVars
    /\ \E d \in Steps, v \in Samples :
        Sample(d, v, threshold, LAUGH_DURATION_MIN, LAUGH_COOLDOWN, MaxClock)

\* ------------------------------------------------ loudness from the frames

\* The frames getByteFrequencyData delivers: every bin holds the same byte,
\* which is then the frame's rms.  Silence, half scale, full scale.
Frames == {0, 64, 255}

\* (rms / 128) * 100 in thousandths, to the nearest.
Scaled(frame) == (frame * 100 * Milli + 64) \div 128

\* Math.round of a value in thousandths.
Round(x) == (x + Milli \div 2) \div Milli

\* VOLUME_SMOOTHING * smoothed + (1 - VOLUME_SMOOTHING) * normalized, to the
\* nearest thousandth.
Smooth(smoothed, normalized) ==
    (VOLUME_SMOOTHING * smoothed + (10 - VOLUME_SMOOTHING) * normalized + 5) \div 10

\* calculateVolume without the Math.min(100, ...) of normalized.
calculateVolume_noMin(analyser, smoothed, frame) ==
    IF ~analyser
    THEN [volume |-> 0, smoothed |-> smoothed]
    ELSE LET normalized == Scaled(frame)
             next == Smooth(smoothed, normalized)
         IN  [volume |-> Round(next), smoothed |-> next]

\* calculateVolume: what it returns and what it leaves in smoothedVolumeRef.
calculateVolume(analyser, smoothed, frame) ==
    IF ~analyser
    THEN [volume |-> 0, smoothed |-> smoothed]
    ELSE LET normalized == IF Scaled(frame) < 100 * Milli THEN Scaled(frame)
                           ELSE 100 * Milli
             next == Smooth(smoothed, normalized)
         IN  [volume |-> Round(next), smoothed |-> next]

\* One period of the two intervals with the frame followed: calculateVolume
\* reads the frame b and its result goes to setState and detectLaugh.
Measure(b, horizon) ==
    LET r == calculateVolume(analyserRef, smoothedVolumeRef, b)
    IN  /\ Sample(VOLUME_UPDATE_INTERVAL, r.volume, threshold, LAUGH_DURATION_MIN,
                  LAUGH_COOLDOWN, horizon)
        /\ smoothedVolumeRef' = r.smoothed
        /\ dataArray' = IF analyserRef THEN b ELSE dataArray

VolumeTick ==
    /\ volumeTimers > 0
    /\ \E b \in Frames : Measure(b, VolumeHorizon)

\* ------------------------------------------------------- pause and resume

\* pauseSession whose pauseRecording also clears the two intervals.
PauseSession_stopsTimers ==
    /\ mounted
    /\ IF mediaRecorderRef = "recording"
       THEN /\ mediaRecorderRef' = "paused" /\ isPaused' = TRUE
            /\ durationIntervalRef' = FALSE /\ volumeIntervalRef' = FALSE
            /\ durationTimers' = IF durationIntervalRef THEN durationTimers - 1
                                 ELSE durationTimers
            /\ volumeTimers' = IF volumeIntervalRef THEN volumeTimers - 1
                               ELSE volumeTimers
       ELSE UNCHANGED <<mediaRecorderRef, isPaused, volumeIntervalRef,
                        durationIntervalRef, durationTimers, volumeTimers>>
    /\ status' = "paused"
    /\ UNCHANGED <<clock, env, samplingVars, hookVars, clipVars, threshold, detectorVars, streamRef, analyserRef,
                   startTimeRef, liveStreams,
                   flightVars, sessionId, sessionError, historyVars,
                   isRecording, duration, volume, laughCount, error,
                   pageVars, contextVars, encoderVars, saveVars>>

\* pauseSession: recorder.pauseRecording(), then status 'paused'.
PauseSession ==
    /\ mounted
    /\ IF mediaRecorderRef = "recording"
       THEN mediaRecorderRef' = "paused" /\ isPaused' = TRUE
       ELSE UNCHANGED <<mediaRecorderRef, isPaused>>
    /\ status' = "paused"
    /\ UNCHANGED <<clock, env, samplingVars, hookVars, clipVars, threshold, detectorVars, streamRef, analyserRef,
                   volumeIntervalRef, durationIntervalRef, startTimeRef, browserVars,
                   flightVars, sessionId, sessionError, historyVars,
                   isRecording, duration, volume, laughCount, error,
                   pageVars, contextVars, encoderVars, saveVars>>

\* resumeSession: recorder.resumeRecording(), then status 'recording'.
ResumeSession ==
    /\ mounted
    /\ IF mediaRecorderRef = "paused"
       THEN mediaRecorderRef' = "recording" /\ isPaused' = FALSE
       ELSE UNCHANGED <<mediaRecorderRef, isPaused>>
    /\ status' = "recording"
    /\ UNCHANGED <<clock, env, samplingVars, hookVars, clipVars, threshold, detectorVars, streamRef, analyserRef,
                   volumeIntervalRef, durationIntervalRef, startTimeRef, browserVars,
                   flightVars, sessionId, sessionError, historyVars,
                   isRecording, duration, volume, laughCount, error,
                   pageVars, contextVars, encoderVars, saveVars>>

\* ------------------------------------------------------------------- stop

\* endSession that starts the upload with what is buffered as it asks the
\* recorder to stop, without awaiting stopRecording.
EndSession_savesEarly ==
    /\ mounted
    /\ sessionId # 0
    /\ durationIntervalRef' = FALSE
    /\ durationTimers' = IF durationIntervalRef THEN durationTimers - 1 ELSE durationTimers
    /\ volumeIntervalRef' = FALSE
    /\ volumeTimers' = IF volumeIntervalRef THEN volumeTimers - 1 ELSE volumeTimers
    /\ IF mediaRecorderRef \in {"null", "inactive"}
       THEN /\ isRecording' = FALSE /\ isPaused' = FALSE /\ volume' = 0
            /\ status' = "error" /\ sessionError' = "nodata"
            /\ UNCHANGED <<mediaRecorderRef, stopPending, stopping, savePending, blob>>
       ELSE /\ mediaRecorderRef' = "inactive"
            /\ stopPending' = stopPending + 1
            /\ stopping' = stopping \cup {recorderId}
            /\ savePending' = savePending + 1
            /\ blob' = chunksRef
            /\ status' = "uploading"
            /\ UNCHANGED <<isRecording, isPaused, volume, sessionError>>
    /\ UNCHANGED <<clock, env, samplingVars, hookVars, clipVars, threshold, detectorVars, streamRef, analyserRef,
                   startTimeRef, liveStreams, startPending, sessionId,
                   historyVars, duration, laughCount, error,
                   pageVars, contextVars, recorderId, orphans, chunksRef, inflight>>

\* endSession -> stopRecording, up to the recorder's stop event.  Without an
\* active recorder stopRecording resolves null at once and endSession ends in
\* its catch with no artifact to save.
EndSession ==
    /\ mounted
    /\ sessionId # 0
    /\ durationIntervalRef' = FALSE
    /\ durationTimers' = IF durationIntervalRef THEN durationTimers - 1 ELSE durationTimers
    /\ volumeIntervalRef' = FALSE
    /\ volumeTimers' = IF volumeIntervalRef THEN volumeTimers - 1 ELSE volumeTimers
    /\ IF mediaRecorderRef \in {"null", "inactive"}
       THEN /\ isRecording' = FALSE /\ isPaused' = FALSE /\ volume' = 0
            /\ status' = "error" /\ sessionError' = "nodata"
            /\ UNCHANGED <<mediaRecorderRef, stopPending, stopping>>
       ELSE /\ mediaRecorderRef' = "inactive"
            /\ stopPending' = stopPending + 1
            /\ stopping' = stopping \cup {recorderId}
            /\ status' = "uploading"
            /\ UNCHANGED <<isRecording, isPaused, volume, sessionError>>
    /\ UNCHANGED <<clock, env, samplingVars, hookVars, clipVars, threshold, detectorVars, streamRef, analyserRef,
                   startTimeRef, liveStreams, startPending, savePending, sessionId,
                   historyVars, duration, laughCount, error,
                   pageVars, contextVars, recorderId, orphans, chunksRef, saveVars>>

\* RecorderStopped whose handler also clears smoothedVolumeRef.
RecorderStopped_resetsSmoothing ==
    /\ stopPending > 0
    /\ stopPending' = stopPending - 1
    /\ \E r \in stopping : stopping' = stopping \ {r}
    /\ blob' = chunksRef
    /\ chunksRef' = << >>
    /\ liveStreams' = IF streamRef THEN liveStreams - 1 ELSE liveStreams
    /\ streamRef' = FALSE
    /\ analyserRef' = FALSE
    /\ isRecording' = SetState(isRecording, FALSE) /\ isPaused' = SetState(isPaused, FALSE)
    /\ volume' = SetState(volume, 0)
    /\ savePending' = savePending + 1
    /\ smoothedVolumeRef' = 0
    /\ UNCHANGED <<clock, env, dataArray, hookVars, clipVars, threshold, detectorVars,
                   mediaRecorderRef,
                   volumeIntervalRef, durationIntervalRef, startTimeRef,
                   volumeTimers, durationTimers, startPending, sessionVars,
                   historyVars, duration, laughCount, error,
                   pageVars, contextVars, recorderId, orphans, inflight>>

\* The recorder's onstop handler: the blob is built, the stream's tracks are
\* stopped, and endSession goes on to persist the artifact.
RecorderStopped ==
    /\ stopPending > 0
    /\ stopPending' = stopPending - 1
    /\ \E r \in stopping : stopping' = stopping \ {r}
    /\ blob' = chunksRef
    /\ chunksRef' = << >>
    /\ liveStreams' = IF streamRef THEN liveStreams - 1 ELSE liveStreams
    /\ streamRef' = FALSE
    /\ analyserRef' = FALSE
    /\ isRecording' = SetState(isRecording, FALSE) /\ isPaused' = SetState(isPaused, FALSE)
    /\ volume' = SetState(volume, 0)
    /\ savePending' = savePending + 1
    /\ UNCHANGED <<clock, env, samplingVars, hookVars, clipVars, threshold, detectorVars, mediaRecorderRef,
                   volumeIntervalRef, durationIntervalRef, startTimeRef,
                   volumeTimers, durationTimers, startPending, sessionVars,
                   historyVars, duration, laughCount, error,
                   pageVars, contextVars, recorderId, orphans, inflight>>

\* endSession after its persistence calls settled: saved remotely (or, in
\* demo mode, locally), saved to the device after a failed upload, or neither.
SaveSettled ==
    /\ savePending > 0
    /\ savePending' = savePending - 1
    /\ blob' = Release(savePending', inflight)
    /\ \E outcome \in {"completed", "offline_saved", "error"} :
        /\ status' = SetState(status, outcome)
        /\ sessionError' = IF outcome = "completed" THEN sessionError
                           ELSE IF outcome = "offline_saved"
                                THEN SetState(sessionError, "saved_to_device")
                           ELSE SetState(sessionError, "upload")
    /\ UNCHANGED <<clock, env, samplingVars, hookVars, clipVars, threshold, detectorVars, refVars, stateVars,
                   browserVars, startPending, stopPending, sessionId, historyVars,
                   pageVars, contextVars, encoderVars, inflight>>

Next ==
    \/ StartSession
    \/ GetUserMediaResolved
    \/ GetUserMediaRejected
    \/ TimerTick
    \/ PauseSession
    \/ ResumeSession
    \/ EndSession
    \/ RecorderStopped
    \/ SaveSettled

\* SaveSettled does not read DEMO_MODE, so one build stands for both here.
InitPage == Init /\ ~DEMO_MODE

\* A page that offers the microphone.
InitOk == InitPage /\ env = "ok"

Spec == InitPage /\ [][Next]_vars

\* ------------------------------- the whole life of a page (SpecSession)

\* ondataavailable with a non-empty chunk of recorder r: the recorder the ref
\* holds while it records, an encoder left running when its ref was
\* overwritten, or a stopped recorder flushing before its stop event.  (An
\* empty chunk is dropped by the handler and changes nothing.)
DataAvailable ==
    /\ Len(chunksRef) < MaxChunks
    /\ \E r \in 1..recorderId :
        /\ \/ r = recorderId /\ mediaRecorderRef = "recording"
           \/ <<r, "recording">> \in orphans
           \/ r \in stopping
        /\ chunksRef' = Append(chunksRef, r)
    /\ UNCHANGED <<clock, env, samplingVars, hookVars, clipVars, threshold, detectorVars, refVars, stateVars,
                   browserVars, flightVars, sessionVars, historyVars, pageVars,
                   contextVars, recorderId, orphans, stopping, saveVars>>

\* The loudness of a sample when only loud or quiet matters.
CaptureVolumes == IF analyserRef THEN {0, threshold + 1} ELSE {0}

\* The timers' callbacks at the exact cadence, over the short horizon.
CaptureTick ==
    /\ volumeTimers > 0
    /\ UNCHANGED samplingVars
    /\ \E v \in CaptureVolumes :
        Sample(VOLUME_UPDATE_INTERVAL, v, threshold, LAUGH_DURATION_MIN,
               LAUGH_COOLDOWN, CaptureHorizon)

\* endSession in demo mode after savePendingUpload settled: 'completed', or
\* the catch block, which tries the same local save once more.
DemoSaveSettled ==
    /\ DEMO_MODE
    /\ savePending > 0
    /\ savePending' = savePending - 1
    /\ \E ok \in BOOLEAN :
        IF ok
        THEN /\ status' = SetState(status, "completed")
             /\ inflight' = inflight
        ELSE /\ inflight' = Await(inflight, <<"savePendingUpload", "local">>)
             /\ status' = status
    /\ blob' = Release(savePending', inflight')
    /\ UNCHANGED <<clock, env, samplingVars, hookVars, clipVars, threshold, detectorVars, refVars, stateVars,
                   browserVars, startPending, stopPending, sessionId, sessionError,
                   historyVars, pageVars, contextVars, encoderVars>>

\* UploadSettled that reports 'completed' as soon as the upload succeeded.
UploadSettled_completes ==
    /\ ~DEMO_MODE
    /\ savePending > 0
    /\ savePending' = savePending - 1
    /\ \E ok \in BOOLEAN :
        IF ok
        THEN /\ inflight' = inflight
             /\ status' = SetState(status, "completed")
        ELSE /\ inflight' = Await(inflight, <<"savePendingUpload", "upload">>)
             /\ status' = status
    /\ UNCHANGED <<clock, env, samplingVars, hookVars, clipVars, threshold, detectorVars, refVars, stateVars,
                   browserVars, startPending, stopPending, sessionId, sessionError,
                   historyVars, pageVars, contextVars, encoderVars, blob>>

\* endSession after the storage upload settled: on to the sessions insert,
\* or (uploadError thrown) to the offline backup.
UploadSettled ==
    /\ ~DEMO_MODE
    /\ savePending > 0
    /\ savePending' = savePending - 1
    /\ \E ok \in BOOLEAN :
        inflight' = IF ok THEN Await(inflight, <<"sessions", NoError>>)
                    ELSE Await(inflight, <<"savePendingUpload", "upload">>)
    /\ UNCHANGED <<clock, env, samplingVars, hookVars, clipVars, threshold, detectorVars, refVars, stateVars,
                   browserVars, startPending, stopPending, sessionVars,
                   historyVars, pageVars, contextVars, encoderVars, blob>>

\* SessionInsertSettled that saves the recording to the device whatever the
\* insert returned, and goes on to the recordings insert when it succeeded.
SessionInsertSettled_savesAlways ==
    /\ inflight[<<"sessions", NoError>>] > 0
    /\ \E ok \in BOOLEAN :
        inflight' = IF ok
                    THEN Await(Await(Settle(inflight, <<"sessions", NoError>>),
                                     <<"recordings", NoError>>),
                               <<"savePendingUpload", "sessions">>)
                    ELSE Await(Settle(inflight, <<"sessions", NoError>>),
                               <<"savePendingUpload", "sessions">>)
    /\ UNCHANGED <<clock, env, samplingVars, hookVars, clipVars, threshold, detectorVars, refVars, stateVars,
                   browserVars, flightVars, sessionVars, historyVars, pageVars,
                   contextVars, encoderVars, blob>>

\* endSession after the sessions insert settled: on to the recordings
\* insert, or (sessionError thrown) to the offline backup.
SessionInsertSettled ==
    /\ inflight[<<"sessions", NoError>>] > 0
    /\ \E ok \in BOOLEAN :
        inflight' = IF ok
                    THEN Await(Settle(inflight, <<"sessions", NoError>>),
                               <<"recordings", NoError>>)
                    ELSE Await(Settle(inflight, <<"sessions", NoError>>),
                               <<"savePendingUpload", "sessions">>)
    /\ UNCHANGED <<clock, env, samplingVars, hookVars, clipVars, threshold, detectorVars, refVars, stateVars,
                   browserVars, flightVars, sessionVars, historyVars, pageVars,
                   contextVars, encoderVars, blob>>

\* endSession after the recordings insert settled: 'completed', or
\* (recordingError thrown) the offline backup.
RecordingInsertSettled ==
    /\ inflight[<<"recordings", NoError>>] > 0
    /\ \E ok \in BOOLEAN :
        IF ok
        THEN /\ inflight' = Settle(inflight, <<"recordings", NoError>>)
             /\ status' = SetState(status, "completed")
        ELSE /\ inflight' = Await(Settle(inflight, <<"recordings", NoError>>),
                                  <<"savePendingUpload", "recordings">>)
             /\ status' = status
    /\ blob' = Release(savePending, inflight')
    /\ UNCHANGED <<clock, env, samplingVars, hookVars, clipVars, threshold, detectorVars, refVars, stateVars,
                   browserVars, flightVars, sessionId, sessionError, historyVars,
                   pageVars, contextVars, encoderVars>>

\* endSession's catch after the offline backup settled: 'offline_saved', or
\* 'error' with the message of the error that was caught first.
BackupSettled ==
    \E a \in Awaits :
        /\ a[1] = "savePendingUpload"
        /\ inflight[a] > 0
        /\ inflight' = Settle(inflight, a)
        /\ \E ok \in BOOLEAN :
            IF ok
            THEN /\ status' = SetState(status, "offline_saved")
                 /\ sessionError' = SetState(sessionError, "saved_to_device")
            ELSE /\ status' = SetState(status, "error")
                 /\ sessionError' = SetState(sessionError, a[2])
        /\ blob' = Release(savePending, inflight')
        /\ UNCHANGED <<clock, env, samplingVars, hookVars, clipVars, threshold, detectorVars, refVars, stateVars,
                       browserVars, flightVars, sessionId, historyVars, pageVars,
                       contextVars, encoderVars>>

\* The cleanup of the hook's effect when the component unmounts.  The ref'd
\* intervals are cleared, an active recorder is stopped (it has no onstop
\* handler), the ref'd stream's tracks are stopped and the context is closed.
\* The stream ref keeps the stopped stream; stopping its tracks again does
\* nothing, so the ref is as good as empty from here on.
Unmount ==
    /\ mounted
    /\ mounted' = FALSE
    /\ durationTimers' = IF durationIntervalRef THEN durationTimers - 1 ELSE durationTimers
    /\ volumeTimers' = IF volumeIntervalRef THEN volumeTimers - 1 ELSE volumeTimers
    /\ durationIntervalRef' = FALSE /\ volumeIntervalRef' = FALSE
    /\ mediaRecorderRef' = IF mediaRecorderRef \in {"recording", "paused"}
                           THEN "inactive" ELSE mediaRecorderRef
    /\ liveStreams' = IF streamRef THEN liveStreams - 1 ELSE liveStreams
    /\ streamRef' = FALSE
    /\ openContexts' = IF audioContextRef \in {"null", "closed"}
                       THEN openContexts ELSE openContexts - 1
    /\ audioContextRef' = "null"
    /\ UNCHANGED <<clock, env, samplingVars, hookVars, clipVars, threshold, detectorVars, analyserRef, startTimeRef,
                   stateVars, flightVars, sessionVars, historyVars, DEMO_MODE,
                   encoderVars, saveVars>>

\* startSession on a page followed through its whole life.
SessionStart == starts < MaxSessions /\ StartSession

SessionNext ==
    \/ SessionStart
    \/ GetUserMediaResolved
    \/ GetUserMediaRejected
    \/ MediaRecorderThrows
    \/ CaptureTick
    \/ DataAvailable
    \/ PauseSession
    \/ ResumeSession
    \/ EndSession
    \/ RecorderStopped
    \/ DemoSaveSettled
    \/ UploadSettled
    \/ SessionInsertSettled
    \/ RecordingInsertSettled
    \/ BackupSettled
    \/ Unmount

SpecSession == Init /\ [][SessionNext]_vars

\* --------------------------- start/stop cycles of the encoder (SpecCycles)

\* Sessions started and stopped one after, or over, the other, with the
\* encoder's chunks followed and the capture timers left aside.
CyclesNext ==
    \/ StartSession
    \/ GetUserMediaResolved
    \/ DataAvailable
    \/ PauseSession
    \/ ResumeSession
    \/ EndSession
    \/ RecorderStopped
    \/ SaveSettled
    \/ Unmount

SpecCycles == InitOk /\ [][CyclesNext]_vars

\* ----------------------------------------- one session, followed longer

\* The timers' callbacks, on time or late, over the longer horizon.
RunTick ==
    /\ volumeTimers > 0
    /\ UNCHANGED samplingVars
    /\ \E d \in Steps, v \in Samples :
        Sample(d, v, threshold, LAUGH_DURATION_MIN, LAUGH_COOLDOWN, RunHorizon)

\* The first start of the page.
FirstStartSession == starts = 0 /\ StartSession

\* One session: started, sampled, paused and resumed, stopped and saved.
RunNext ==
    \/ FirstStartSession
    \/ GetUserMediaResolved
    \/ RunTick
    \/ PauseSession
    \/ ResumeSession
    \/ EndSession
    \/ RecorderStopped
    \/ SaveSettled

SpecRun == InitOk /\ [][RunNext]_vars

\* --------------------------------- calculateVolume by itself (SpecEstimate)

\* What smoothedVolumeRef may hold from earlier calls: the ends and the
\* middle of [0, 100], and the values next to the ends.
Priors == {0, 1, 50 * Milli, 100 * Milli - 1, 100 * Milli}

\* Frames around the byte 128, whose scaled value is exactly 100.
EstimateFrames == {0, 1, 127, 128, 129, 255}

InitEstimate ==
    /\ InitHook /\ InitClip /\ ~DEMO_MODE /\ env = "ok"
    /\ smoothedVolumeRef \in Priors /\ dataArray = 0

\* One call of calculateVolume on its own, on the frame b, with or without
\* an analyser connected; what it returns is kept in volume.
CalculateVolume ==
    /\ clock + VOLUME_UPDATE_INTERVAL <= EstimateHorizon
    /\ clock' = clock + VOLUME_UPDATE_INTERVAL
    /\ \E b \in EstimateFrames :
        LET r == calculateVolume(analyserRef, smoothedVolumeRef, b)
        IN  /\ smoothedVolumeRef' = r.smoothed
            /\ dataArray' = IF analyserRef THEN b ELSE dataArray
            /\ volume' = SetState(volume, r.volume)
    /\ UNCHANGED <<env, hookVars, clipVars, threshold, detectorVars, refVars,
                   isRecording, isPaused, duration, laughCount, error,
                   browserVars, flightVars, sessionVars, historyVars, pageVars,
                   contextVars, encoderVars, saveVars>>

EstimateNext ==
    \/ FirstStartSession
    \/ GetUserMediaResolved
    \/ CalculateVolume

SpecEstimate == InitEstimate /\ [][EstimateNext]_vars

\* ------------------------------ one session of constant input (SpecSteady)

\* Constant inputs above the threshold of 55: the bytes 71 and 72 scale to
\* 55.47 and 56.25, the byte 255 to the full 100.
SteadyFrames == {71, 72, 255}

\* The intervals at the exact cadence, every frame the same as the first.
SteadyTick ==
    /\ volumeTimers > 0
    /\ \E b \in SteadyFrames :
        /\ clock = startTimeRef \/ b = dataArray
        /\ Measure(b, SteadyHorizon)

\* endSession when the input has lasted its time.
SteadyEndSession == clock = SteadyHorizon /\ EndSession

\* One session: started, fed the constant input, stopped and saved.
SteadyNext ==
    \/ FirstStartSession
    \/ GetUserMediaResolved
    \/ SteadyTick
    \/ SteadyEndSession
    \/ RecorderStopped
    \/ SaveSettled

SpecSteady == InitOk /\ [][SteadyNext]_vars

\* ------------------------------ sessions with their frames (SpecVolume)

\* startSession on a page whose earlier session, if any, was stopped.
NextStartSession ==
    /\ starts < MaxVolumeSessions
    /\ starts > 0 => startPending = 0 /\ stopPending = 0 /\ mediaRecorderRef = "inactive"
    /\ StartSession

\* Sessions started, sampled from their frames, stopped and saved, one after
\* the other.
VolumeNext ==
    \/ NextStartSession
    \/ GetUserMediaResolved
    \/ VolumeTick
    \/ EndSession
    \/ RecorderStopped
    \/ SaveSettled

SpecVolume == InitOk /\ [][VolumeNext]_vars

\* ------------------------------------- samples at the exact cadence (Live)

\* The timers' period with no callback late.
CadenceTick ==
    /\ volumeTimers > 0
    /\ UNCHANGED samplingVars
    /\ \E v \in Samples :
        Sample(VOLUME_UPDATE_INTERVAL, v, threshold, LAUGH_DURATION_MIN,
               LAUGH_COOLDOWN, LiveHorizon)

\* One session that is started, sampled and stopped.
LiveNext ==
    \/ FirstStartSession
    \/ GetUserMediaResolved
    \/ CadenceTick
    \/ EndSession
    \/ RecorderStopped

\* setInterval keeps calling back for as long as the interval is not cleared.
SpecLive == InitOk /\ [][LiveNext]_vars /\ WF_vars(CadenceTick)

\* ------------------------- claude/useAudioRecorder_FIXED.ts (the 5 s example)

\* startRecording of the FIXED hook up to `await getUserMedia`: it resets the
\* laugh detection before it asks for the microphone.
FixedStartRecording ==
    /\ starts < MaxStarts
    /\ starts' = starts + 1
    /\ error' = NoError
    /\ laughCountRef' = 0 /\ loudStartTimeRef' = NULL /\ lastLaughTimeRef' = 0
    /\ earlier' = IF events = NoEvents THEN earlier ELSE events[Len(events)].at
    /\ events' = NoEvents /\ runClean' = TRUE
    /\ startPending' = startPending + 1
    /\ UNCHANGED <<clock, env, samplingVars, hookVars, clipVars, threshold, refVars, browserVars, sessionVars,
                   isRecording, isPaused, duration, volume, laughCount,
                   stopPending, savePending,
                   pageVars, contextVars, encoderVars, saveVars>>

\* startRecording of the FIXED hook after getUserMedia resolved.
FixedGetUserMediaResolved ==
    /\ startPending > 0
    /\ startPending' = startPending - 1
    /\ streamRef' = TRUE /\ liveStreams' = liveStreams + 1
    /\ audioContextRef' = getAudioContext.ref /\ openContexts' = getAudioContext.open
    /\ analyserRef' = TRUE
    /\ mediaRecorderRef' = "recording"
    /\ recorderId' = recorderId + 1
    /\ orphans' = IF mediaRecorderRef \in {"recording", "paused"}
                  THEN orphans \cup {<<recorderId, mediaRecorderRef>>} ELSE orphans
    /\ chunksRef' = << >>
    /\ startTimeRef' = clock
    /\ durationIntervalRef' = TRUE /\ durationTimers' = durationTimers + 1
    /\ volumeIntervalRef' = TRUE /\ volumeTimers' = volumeTimers + 1
    /\ isRecording' = TRUE /\ isPaused' = FALSE /\ duration' = 0 /\ laughCount' = 0
    /\ UNCHANGED <<clock, env, samplingVars, hookVars, clipVars, threshold, detectorVars, volume, error,
                   stopPending, savePending, sessionVars, historyVars,
                   pageVars, stopping, saveVars>>

\* Loudness above LAUGH_VOLUME_THRESHOLD: just above it, and full scale.
LoudVolumes == {FIXED_LAUGH_VOLUME_THRESHOLD + 1, 100}

\* The FIXED hook's timers at the exact cadence, every sample loud.
FixedLoudTick ==
    /\ volumeTimers > 0
    /\ UNCHANGED samplingVars
    /\ \E v \in LoudVolumes :
        Sample(VOLUME_UPDATE_INTERVAL, v, FIXED_LAUGH_VOLUME_THRESHOLD,
               FIXED_LAUGH_DURATION_MIN, FIXED_LAUGH_COOLDOWN, FixedHorizon)

FixedNext ==
    \/ FixedStartRecording
    \/ FixedGetUserMediaResolved
    \/ FixedLoudTick

SpecFixed == InitOk /\ [][FixedNext]_vars

\* ------------------------------------------------ the clip extractor's calls

\* YamnetService.loadModel by a caller that finds neither a model nor a load
\* in flight: up to `await tf.loadGraphModel`.
LoadModel ==
    /\ model = "null" /\ ~isLoading
    /\ isLoading' = TRUE
    /\ UNCHANGED <<clock, env, samplingVars, hookVars, threshold, detectorVars, refVars, stateVars,
                   browserVars, flightVars, sessionVars, historyVars, pageVars,
                   contextVars, encoderVars, saveVars, model, extracting,
                   laughTimestamps, audioBuffer, laughIndex, timestampMs,
                   clipBuffer, candidates, normalizedBuffer, clip, scored>>

\* The fetch resolved: the model is kept, and `finally` clears isLoading.
LoadModelResolved ==
    /\ isLoading
    /\ model' = "loaded" /\ isLoading' = FALSE
    /\ UNCHANGED <<clock, env, samplingVars, hookVars, threshold, detectorVars, refVars, stateVars,
                   browserVars, flightVars, sessionVars, historyVars, pageVars,
                   contextVars, encoderVars, saveVars, extracting,
                   laughTimestamps, audioBuffer, laughIndex, timestampMs,
                   clipBuffer, candidates, normalizedBuffer, clip, scored>>

\* The fetch rejected: the error is rethrown, and `finally` clears isLoading.
LoadModelRejected ==
    /\ isLoading
    /\ isLoading' = FALSE
    /\ UNCHANGED <<clock, env, samplingVars, hookVars, threshold, detectorVars, refVars, stateVars,
                   browserVars, flightVars, sessionVars, historyVars, pageVars,
                   contextVars, encoderVars, saveVars, model, extracting,
                   laughTimestamps, audioBuffer, laughIndex, timestampMs,
                   clipBuffer, candidates, normalizedBuffer, clip, scored>>

\* extractBestLaugh(sessionBlob, laughTimestamps), up to `await
\* decodeAudioBlob`; an empty list returns null at once.
ExtractBestLaugh ==
    /\ extracting = "idle"
    /\ \E laughs \in LaughLists :
        /\ laughTimestamps' = laughs
        /\ extracting' = IF laughs = << >> THEN "done" ELSE "decoding"
    /\ UNCHANGED <<clock, env, samplingVars, hookVars, threshold, detectorVars, refVars, stateVars,
                   browserVars, flightVars, sessionVars, historyVars, pageVars,
                   contextVars, encoderVars, saveVars, yamnetVars, audioBuffer,
                   laughIndex, timestampMs, clipBuffer, candidates,
                   normalizedBuffer, clip, scored>>

\* One pass of the for loop that did not reach scoreClip: extractClipSegment
\* returned null, by its own test or because createBuffer threw.
Skipped(laugh) == [timestamp |-> laugh, outcome |-> "none", score |-> 0]

\* score >= MIN_YAMNET_SCORE without the floor.
Qualifies_any(score) == TRUE

Qualifies(score) == score >= MIN_YAMNET_SCORE

\* The code after the loop: null without candidates, else the sort, the
\* choice of candidates[0], its normalization, up to `await exportAsMP3`.
Finish(cands, log) ==
    /\ scored' = log
    /\ IF cands = NoCandidates
       THEN /\ extracting' = "done"
            /\ candidates' = cands
            /\ UNCHANGED normalizedBuffer
       ELSE /\ extracting' = "exporting"
            /\ candidates' = sortByScore(cands)
            /\ normalizedBuffer' = normalizeAudio(sortByScore(cands)[1].buffer)
    /\ UNCHANGED clip

\* Advance whose loop returns null at the first laugh without a segment.
Advance_abortsOnNone(source, from, cands, log) ==
    LET last == Len(laughTimestamps)
    IN  \E next \in from..(last + 1) :
            LET passed == [j \in 1..(next - from) |-> Skipped(laughTimestamps[from + j - 1])]
                segment == IF next <= last
                           THEN extractClipSegment(source, laughTimestamps[next])
                           ELSE NoBuffer
            IN  /\ next <= last => segment # NoBuffer
                /\ laughIndex' = next
                /\ timestampMs' = laughTimestamps[IF next <= last THEN next ELSE last]
                /\ clipBuffer' = IF next <= last \/ passed # << >> THEN segment ELSE clipBuffer
                /\ IF passed # << >>
                   THEN /\ extracting' = "done"
                        /\ candidates' = NoCandidates
                        /\ scored' = log \o passed
                        /\ UNCHANGED <<normalizedBuffer, clip>>
                   ELSE IF next <= last
                   THEN /\ extracting' = "scoring"
                        /\ candidates' = cands
                        /\ scored' = log \o passed
                        /\ UNCHANGED <<normalizedBuffer, clip>>
                   ELSE Finish(cands, log \o passed)

\* The for loop from laugh `from` on, as far as it runs without suspending:
\* the laughs before `next` get no segment (extractClipSegment returns null
\* for them, which for a source that holds a clip means createBuffer threw)
\* and are passed over by `continue`; laugh `next` gets one and the loop
\* suspends in `await scoreClip`, or the list is exhausted and the code after
\* the loop runs.
Advance(source, from, cands, log) ==
    LET last == Len(laughTimestamps)
    IN  \E next \in from..(last + 1) :
            LET passed == [j \in 1..(next - from) |-> Skipped(laughTimestamps[from + j - 1])]
                segment == IF next <= last
                           THEN extractClipSegment(source, laughTimestamps[next])
                           ELSE NoBuffer
            IN  /\ next <= last => segment # NoBuffer
                /\ laughIndex' = next
                /\ timestampMs' = laughTimestamps[IF next <= last THEN next ELSE last]
                /\ clipBuffer' = IF next <= last \/ passed # << >> THEN segment ELSE clipBuffer
                /\ IF next <= last
                   THEN /\ extracting' = "scoring"
                        /\ candidates' = cands
                        /\ scored' = log \o passed
                        /\ UNCHANGED <<normalizedBuffer, clip>>
                   ELSE Finish(cands, log \o passed)

\* decodeAudioData resolved: the duration test, then the loop.
DecodeResolved ==
    /\ extracting = "decoding"
    /\ \E decoded \in PassSources :
        /\ audioBuffer' = decoded
        /\ IF length(decoded) * 1000 < CLIP_DURATION_MS * decoded.sampleRate
           THEN /\ extracting' = "done"
                /\ UNCHANGED <<laughIndex, timestampMs, clipBuffer, candidates,
                               normalizedBuffer, clip, scored>>
           ELSE Advance(decoded, 1, NoCandidates, << >>)
    /\ UNCHANGED <<clock, env, samplingVars, hookVars, threshold, detectorVars, refVars, stateVars,
                   browserVars, flightVars, sessionVars, historyVars, pageVars,
                   contextVars, encoderVars, saveVars, yamnetVars, laughTimestamps>>

\* Both decode attempts failed: the throw reaches extractBestLaugh's catch,
\* which returns null.
DecodeRejected ==
    /\ extracting = "decoding"
    /\ extracting' = "done"
    /\ UNCHANGED <<clock, env, samplingVars, hookVars, threshold, detectorVars, refVars, stateVars,
                   browserVars, flightVars, sessionVars, historyVars, pageVars,
                   contextVars, encoderVars, saveVars, yamnetVars,
                   laughTimestamps, audioBuffer, laughIndex, timestampMs,
                   clipBuffer, candidates, normalizedBuffer, clip, scored>>

\* scoreClip settled for the laugh the loop is at: predict's value, or 0
\* when the resampling or the inference threw; the candidate is pushed if it
\* reaches the floor, and the loop goes on.
ScoreSettled ==
    /\ extracting = "scoring"
    /\ \E threw \in BOOLEAN :
       \E scoreValues \in IF threw THEN {ScoreValues(0, 0)} ELSE ModelOutputs :
        LET score == IF threw THEN 0 ELSE predict(model, scoreValues)
            laugh == laughTimestamps[laughIndex]
            pushed == IF Qualifies(score)
                      THEN Append(candidates,
                                  [buffer |-> clipBuffer, timestamp |-> laugh, score |-> score])
                      ELSE candidates
            entry == [timestamp |-> laugh,
                      outcome |-> IF threw THEN "threw" ELSE "scored",
                      score |-> score]
        IN  Advance(audioBuffer, laughIndex + 1, pushed, Append(scored, entry))
    /\ UNCHANGED <<clock, env, samplingVars, hookVars, threshold, detectorVars, refVars, stateVars,
                   browserVars, flightVars, sessionVars, historyVars, pageVars,
                   contextVars, encoderVars, saveVars, yamnetVars,
                   laughTimestamps, audioBuffer>>

\* exportAsMP3 settled (with the encoder's blob, or with the WAV of its
\* catch): extractBestLaugh resolves with the clip of candidates[0].
ExportSettled ==
    /\ extracting = "exporting"
    /\ extracting' = "done"
    /\ clip' = [duration |-> CLIP_DURATION_MS,
                yamnetScore |-> candidates[1].score,
                timestamp |-> candidates[1].timestamp,
                normalizedPeak |-> TARGET_PEAK_DB]
    /\ UNCHANGED <<clock, env, samplingVars, hookVars, threshold, detectorVars, refVars, stateVars,
                   browserVars, flightVars, sessionVars, historyVars, pageVars,
                   contextVars, encoderVars, saveVars, yamnetVars,
                   laughTimestamps, audioBuffer, laughIndex, timestampMs,
                   clipBuffer, candidates, normalizedBuffer, scored>>

ClipNext ==
    \/ LoadModel
    \/ LoadModelResolved
    \/ LoadModelRejected
    \/ ExtractBestLaugh
    \/ DecodeResolved
    \/ DecodeRejected
    \/ ScoreSettled
    \/ ExportSettled

SpecClip == InitOk /\ [][ClipNext]_vars

\* extractClipSegment as a function of its arguments: every decoded
\* recording and every laugh time of the bounds.
InitSegment ==
    /\ InitHook /\ InitSampling /\ ~DEMO_MODE /\ env = "ok"
    /\ model = "null" /\ isLoading = FALSE
    /\ extracting = "idle" /\ laughTimestamps = << >> /\ laughIndex = 0
    /\ audioBuffer \in Sources
    /\ timestampMs \in Offsets
    /\ clipBuffer = NoBuffer /\ candidates = NoCandidates
    /\ normalizedBuffer = NoBuffer /\ clip = NoClip /\ scored = << >>

\* One call extractClipSegment(audioBuffer, timestampMs), on its own.
ExtractClipSegment ==
    /\ extracting = "idle" /\ audioBuffer # NoBuffer
    /\ extracting' = "done"
    /\ clipBuffer' = extractClipSegment(audioBuffer, timestampMs)
    /\ UNCHANGED <<clock, env, samplingVars, hookVars, threshold, detectorVars, refVars, stateVars,
                   browserVars, flightVars, sessionVars, historyVars, pageVars,
                   contextVars, encoderVars, saveVars, yamnetVars,
                   laughTimestamps, audioBuffer, laughIndex, timestampMs,
                   candidates, normalizedBuffer, clip, scored>>

SegmentNext == ExtractClipSegment

SpecSegment == InitSegment /\ [][SegmentNext]_vars

\* normalizeAudio as a function of its argument: every segment of the bounds.
InitNormalize ==
    /\ InitHook /\ InitSampling /\ ~DEMO_MODE /\ env = "ok"
    /\ model = "null" /\ isLoading = FALSE
    /\ extracting = "idle" /\ laughTimestamps = << >> /\ laughIndex = 0
    /\ audioBuffer = NoBuffer /\ timestampMs = 0
    /\ clipBuffer \in Segments /\ candidates = NoCandidates
    /\ normalizedBuffer = NoBuffer /\ clip = NoClip /\ scored = << >>

\* One call normalizeAudio(clipBuffer), on its own.
NormalizeAudio ==
    /\ extracting = "idle" /\ clipBuffer # NoBuffer
    /\ extracting' = "done"
    /\ normalizedBuffer' = normalizeAudio(clipBuffer)
    /\ UNCHANGED <<clock, env, samplingVars, hookVars, threshold, detectorVars, refVars, stateVars,
                   browserVars, flightVars, sessionVars, historyVars, pageVars,
                   contextVars, encoderVars, saveVars, yamnetVars,
                   laughTimestamps, audioBuffer, laughIndex, timestampMs,
                   clipBuffer, candidates, clip, scored>>

NormalizeNext == NormalizeAudio

SpecNormalize == InitNormalize /\ [][NormalizeNext]_vars

\* ------------------------------------------- useYamnet's calls (SpecYamnet)

\* The effect of the hook h: loadModel is called and awaited.  With a model,
\* or with a load in flight, loadModel returns at once and the hook sets
\* isModelLoaded; else the fetch is started and the hook waits for it.
UseYamnet(h) ==
    /\ loadCalls[h] = "none"
    /\ IF model # "null" \/ isLoading
       THEN /\ loadCalls' = [loadCalls EXCEPT ![h] = "resolved"]
            /\ isModelLoaded' = isModelLoaded \cup {h}
            /\ UNCHANGED isLoading
       ELSE /\ loadCalls' = [loadCalls EXCEPT ![h] = "awaiting"]
            /\ isLoading' = TRUE
            /\ UNCHANGED isModelLoaded
    /\ UNCHANGED <<clock, env, samplingVars, threshold, detectorVars, refVars,
                   stateVars, browserVars, flightVars, sessionVars, historyVars,
                   pageVars, contextVars, encoderVars, saveVars, model, extracting,
                   laughTimestamps, audioBuffer, laughIndex, timestampMs,
                   clipBuffer, candidates, normalizedBuffer, clip, scored,
                   laughProbability>>

\* tf.loadGraphModel resolved for the hook that started it: the model is
\* kept, `finally` clears isLoading, and the hook sets isModelLoaded.
TfLoadResolved ==
    \E h \in Hooks :
        /\ loadCalls[h] = "awaiting"
        /\ model' = "loaded" /\ isLoading' = FALSE
        /\ loadCalls' = [loadCalls EXCEPT ![h] = "resolved"]
        /\ isModelLoaded' = isModelLoaded \cup {h}
        /\ UNCHANGED <<clock, env, samplingVars, threshold, detectorVars, refVars,
                       stateVars, browserVars, flightVars, sessionVars, historyVars,
                       pageVars, contextVars, encoderVars, saveVars, extracting,
                       laughTimestamps, audioBuffer, laughIndex, timestampMs,
                       clipBuffer, candidates, normalizedBuffer, clip, scored,
                       laughProbability>>

\* tf.loadGraphModel rejected: loadModel rethrows after `finally` cleared
\* isLoading, and the hook's catch logs the error.
TfLoadRejected ==
    \E h \in Hooks :
        /\ loadCalls[h] = "awaiting"
        /\ isLoading' = FALSE
        /\ loadCalls' = [loadCalls EXCEPT ![h] = "rejected"]
        /\ UNCHANGED <<clock, env, samplingVars, threshold, detectorVars, refVars,
                       stateVars, browserVars, flightVars, sessionVars, historyVars,
                       pageVars, contextVars, encoderVars, saveVars, model, extracting,
                       laughTimestamps, audioBuffer, laughIndex, timestampMs,
                       clipBuffer, candidates, normalizedBuffer, clip, scored,
                       isModelLoaded, laughProbability>>

\* analyzeAudio of the hook h once its isModelLoaded is true (before that
\* it returns 0 and sets nothing): predict, then setLaughProbability.
AnalyzeAudio(h) ==
    /\ h \in isModelLoaded
    /\ \E scoreValues \in ModelOutputs :
        laughProbability' = [laughProbability EXCEPT ![h] = predict(model, scoreValues)]
    /\ UNCHANGED <<clock, env, samplingVars, threshold, detectorVars, refVars,
                   stateVars, browserVars, flightVars, sessionVars, historyVars,
                   pageVars, contextVars, encoderVars, saveVars, clipVars,
                   loadCalls, isModelLoaded>>

YamnetNext ==
    \/ \E h \in Hooks : UseYamnet(h)
    \/ TfLoadResolved
    \/ TfLoadRejected
    \/ \E h \in Hooks : AnalyzeAudio(h)

SpecYamnet == InitOk /\ [][YamnetNext]_vars

\* ------------------------------------------------------------- properties

\* The sample just processed counted a laugh.
Fired == laughCountRef' = laughCountRef + 1

\* C1: two consecutive laugh detections of a session fire at least
\* LAUGH_COOLDOWN apart.
C1_CooldownBetweenDetections ==
    Len(events) = 2 => events[2].at - events[1].at >= LAUGH_COOLDOWN

C1_Witness ==
    /\ Len(events) = 2
    /\ events[2].at - events[1].at = LAUGH_COOLDOWN
    /\ laughCountRef = 2 /\ lastLaughTimeRef = events[2].at

\* C2 as stated: the starts of the loud runs of two events (timeOffsetMs =
\* loudSince - sessionStart) differ by at least the cooldown.
C2_OffsetsCooldownApart ==
    Len(events) = 2 => events[2].since - events[1].since >= LAUGH_COOLDOWN

\* C2 amended: the starts of the loud runs of two events differ by at least
\* the minimum sustain (it is the firing times that are a cooldown apart).
C2_OffsetsSustainApart ==
    Len(events) = 2 => events[2].since - events[1].since >= LAUGH_DURATION_MIN

C2_Witness ==
    /\ Len(events) = 2
    /\ events[2].since - events[1].since < LAUGH_COOLDOWN
    /\ events[2].at - events[1].at >= LAUGH_COOLDOWN

\* C4: a laugh is counted only at a sample above the threshold that closes a
\* loud run with no quiet sample in it and at least LAUGH_DURATION_MIN old;
\* a quiet sample that ends a shorter run counts nothing, and that run has
\* counted nothing before.
C4_OnlySustainedLoudRunsFire ==
    /\ [][(TimerTick /\ Fired) =>
            /\ volume' > threshold
            /\ loudStartTimeRef # NULL
            /\ runClean
            /\ clock' - loudStartTimeRef >= LAUGH_DURATION_MIN]_vars
    /\ [][(TimerTick /\ volume' <= threshold /\ loudStartTimeRef # NULL
              /\ clock' - loudStartTimeRef < LAUGH_DURATION_MIN) =>
            /\ ~Fired
            /\ events' = events
            /\ \A i \in 1..Len(events) : events[i].since < loudStartTimeRef]_vars

\* A laugh just counted, closing a run that is exactly LAUGH_DURATION_MIN old.
C4_Witness ==
    /\ Len(events) = 1 /\ laughCountRef = 1
    /\ events[1].at = clock /\ volume > threshold
    /\ events[1].at - events[1].since = LAUGH_DURATION_MIN

\* C5: a sample that counts a laugh leaves lastLaughTimeRef at its own time
\* and loudStartTimeRef null; the next laugh closes a run that began at a
\* later sample and lasted LAUGH_DURATION_MIN from there.
C5_FiringResetsTracking ==
    /\ [][(RunTick /\ Fired) =>
            /\ lastLaughTimeRef' = clock'
            /\ loudStartTimeRef' = NULL]_vars
    /\ [](Len(events) = 2 =>
            /\ events[2].since >= events[1].at
            /\ events[2].at - events[2].since >= LAUGH_DURATION_MIN)

C5_Witness ==
    /\ Len(events) = 2
    /\ lastLaughTimeRef = clock /\ events[2].at = clock
    /\ loudStartTimeRef = NULL
    /\ events[2].since > events[1].at

\* C7: a sample at or below the threshold sets loudStartTimeRef to null and
\* changes neither lastLaughTimeRef nor the laugh count.
C7_QuietSampleResetsOnlyLoudStart ==
    [][(TimerTick /\ volume' <= threshold) =>
            /\ loudStartTimeRef' = NULL
            /\ lastLaughTimeRef' = lastLaughTimeRef
            /\ laughCountRef' = laughCountRef
            /\ laughCount' = laughCount]_vars

\* A sample exactly at the threshold, after a laugh of the session.
C7_Witness ==
    /\ volume = threshold /\ analyserRef
    /\ loudStartTimeRef = NULL
    /\ laughCountRef = 1 /\ lastLaughTimeRef < clock

\* C3 as stated: with the FIXED detector (threshold 55, sustain 300 ms,
\* cooldown 1500 ms), 5000 ms of loud samples every 100 ms after a fresh
\* start count exactly 3 laughs.
C3_ThreeEventsIn5s ==
    (starts = 1 /\ volumeTimers = 1 /\ clock - startTimeRef = 50 * VOLUME_UPDATE_INTERVAL)
        => laughCountRef = 3

\* The time of the first sample of the only session so far.
FirstSample == startTimeRef + VOLUME_UPDATE_INTERVAL
\* Laughs counted when the steady loud run of the FIXED detector is t ms old.
LaughsAfter(t) ==
    IF t < FIXED_LAUGH_DURATION_MIN THEN 0
    ELSE (t - FIXED_LAUGH_DURATION_MIN) \div FIXED_LAUGH_COOLDOWN + 1

\* C3 amended: in that run the k-th laugh is counted 300 + 1500 (k - 1) ms
\* after the first sample, so 5000 ms of samples count exactly 4 laughs, at
\* 300, 1800, 3300 and 4800 ms.
C3_FourEventsIn5s ==
    (starts = 1 /\ volumeTimers = 1 /\ clock >= FirstSample) =>
        /\ laughCountRef = LaughsAfter(clock - FirstSample)
        /\ laughCountRef > 0 =>
              lastLaughTimeRef - FirstSample =
                  FIXED_LAUGH_DURATION_MIN + FIXED_LAUGH_COOLDOWN * (laughCountRef - 1)
        /\ (clock - startTimeRef = 50 * VOLUME_UPDATE_INTERVAL) => laughCountRef = 4

C3_Witness ==
    /\ starts = 1 /\ volumeTimers = 1
    /\ clock - startTimeRef = 50 * VOLUME_UPDATE_INTERVAL
    /\ laughCountRef = 4 /\ laughCount = 4
    /\ lastLaughTimeRef - FirstSample = 4800

\* Time enough, at the exact cadence, for the cooldown to pass.
Room == LAUGH_COOLDOWN
\* The laugh counts a run within LiveHorizon can reach.
LaughCounts == 1 .. ((MaxLiveTicks * VOLUME_UPDATE_INTERVAL) \div LAUGH_COOLDOWN + 1)

\* C6: while the samples stay above the threshold the detector keeps
\* counting: after each laugh another one follows (unless a sample is quiet
\* or the timers are stopped), and it is counted at the first sample at which
\* both the run is LAUGH_DURATION_MIN old and the cooldown has passed.
C6_KeepsFiringWhileLoud ==
    /\ \A n \in LaughCounts :
          [](( /\ laughCountRef = n
               /\ volumeTimers > 0
               /\ clock + Room <= LiveHorizon )
              => <>(laughCountRef # n \/ volume <= threshold \/ volumeTimers = 0))
    /\ [][(CadenceTick /\ volume' > threshold /\ loudStartTimeRef # NULL
              /\ clock' - loudStartTimeRef >= LAUGH_DURATION_MIN
              /\ clock' - lastLaughTimeRef >= LAUGH_COOLDOWN) => Fired]_vars

\* Two laughs of one loud run: the run of the second began at the sample
\* after the first, and it fired as soon as the cooldown allowed.
C6_Witness ==
    /\ Len(events) = 2
    /\ events[2].since - events[1].at = VOLUME_UPDATE_INTERVAL
    /\ events[2].at - events[1].at = LAUGH_COOLDOWN
    /\ volume > threshold

C9_OneActiveSession ==
    /\ [][(StartSession /\ status \in {"recording", "paused"}) =>
            UNCHANGED <<sessionVars, flightVars, browserVars>>]_vars
    /\ [](liveStreams <= 1 /\ volumeTimers <= 1 /\ durationTimers <= 1)

\* A start attempt fails: the page offers no microphone, or the user denies it.
StartFails == (StartSession /\ PreflightError # NoError) \/ GetUserMediaRejected

\* C10: a start that cannot get the microphone never shows Recording and
\* leaves the session Idle.
C10_FailedStartStaysIdle ==
    [][StartFails =>
            /\ status' = "idle"
            /\ GetUserMediaRejected => status # "recording"]_vars

\* -------------------------------------------- properties of the whole life

\* C11: pauseSession outside Recording and resumeSession outside Paused
\* change neither the session status nor the recorder's state.
C11_PauseResumeOnlyWhenValid ==
    /\ [][(PauseSession /\ status # "recording") =>
            UNCHANGED <<status, mediaRecorderRef>>]_vars
    /\ [][(ResumeSession /\ status # "paused") =>
            UNCHANGED <<status, mediaRecorderRef>>]_vars

\* C12: after a normal stop, after a start that fails with the stream
\* already acquired, and after the teardown of the component, no microphone
\* track is live and no audio context is open.
C12_EveryExitReleasesDevice ==
    [][(RecorderStopped \/ MediaRecorderThrows \/ Unmount) =>
            (liveStreams' = 0 /\ openContexts' = 0)]_vars

\* C13: a start that was still waiting for the permission when endSession
\* found nothing to stop is abandoned: when the permission is granted it
\* holds no stream and starts neither the encoder nor a capture timer.
C13_StopAbandonsPendingStart ==
    [][(GetUserMediaResolved /\ status = "error" /\ sessionError = "nodata") =>
            /\ ~streamRef' /\ liveStreams' = liveStreams
            /\ volumeTimers' = volumeTimers /\ durationTimers' = durationTimers
            /\ mediaRecorderRef' # "recording"]_vars

\* C14: endSession leaves no capture timer running, and no sample is
\* processed for a session whose stop has been invoked.
C14_StopHaltsCapture ==
    /\ [][EndSession => (volumeTimers' = 0 /\ durationTimers' = 0)]_vars
    /\ [][CaptureTick => ~(status = "error" /\ sessionError = "nodata")]_vars

\* C15: the stop event of a recorder empties the chunk buffer and leaves an
\* artifact made of chunks of that recorder only.
C15_ArtifactIsOwnChunks ==
    [][RecorderStopped =>
            /\ chunksRef' = << >>
            /\ \A i \in 1..Len(blob') : blob'[i] \in stopping \ stopping']_vars

\* C16: a stop that yields no recording (no active recorder, or an empty
\* chunk buffer) ends in status 'error' with a message, never in 'completed'
\* or 'offline_saved', and keeps duration and laugh count.
C16_NoArtifactIsAnError ==
    /\ [][(EndSession /\ mediaRecorderRef \in {"null", "inactive"}) =>
            /\ status' = "error" /\ sessionError' # NoError
            /\ duration' = duration /\ laughCount' = laughCount]_vars
    /\ [][((DemoSaveSettled \/ RecordingInsertSettled \/ BackupSettled) /\ blob = << >>) =>
            status' \notin {"completed", "offline_saved"}]_vars

\* The step of endSession that reports the outcome s.
Reports(s) == mounted /\ status' = s /\ status # s

\* C17 as stated: 'completed' is reported only by the recordings insert that
\* succeeded after the upload and the sessions insert, 'offline_saved' only
\* by a local save that succeeded after a remote step failed, and every
\* other end of endSession is 'error'.
C17_ThreeOutcomes ==
    /\ [][Reports("completed") => RecordingInsertSettled]_vars
    /\ [][Reports("offline_saved") =>
            /\ BackupSettled /\ blob # NoBlob
            /\ inflight'[<<"savePendingUpload", "local">>]
                  = inflight[<<"savePendingUpload", "local">>]]_vars
    /\ [][inflight'[<<"recordings", NoError>>] > inflight[<<"recordings", NoError>>]
            => SessionInsertSettled]_vars
    /\ [][inflight'[<<"sessions", NoError>>] > inflight[<<"sessions", NoError>>]
            => UploadSettled]_vars
    /\ [][(mounted /\ BackupSettled) => status' \in {"offline_saved", "error"}]_vars
    /\ [][(EndSession /\ mediaRecorderRef \in {"null", "inactive"}) =>
            status' = "error"]_vars

\* C17 amended: as stated on a page with Supabase credentials; in demo mode
\* 'completed' is reported by the local save that succeeded, with no remote
\* step, and 'offline_saved' by the retry of a local save that failed.
C17_ThreeOutcomesPerMode ==
    /\ [][Reports("completed") =>
            IF DEMO_MODE THEN DemoSaveSettled ELSE RecordingInsertSettled]_vars
    /\ [][Reports("offline_saved") =>
            /\ BackupSettled /\ blob # NoBlob
            /\ ~DEMO_MODE => inflight'[<<"savePendingUpload", "local">>]
                                = inflight[<<"savePendingUpload", "local">>]]_vars
    /\ [][inflight'[<<"recordings", NoError>>] > inflight[<<"recordings", NoError>>]
            => SessionInsertSettled]_vars
    /\ [][inflight'[<<"sessions", NoError>>] > inflight[<<"sessions", NoError>>]
            => UploadSettled]_vars
    /\ [][(mounted /\ BackupSettled) => status' \in {"offline_saved", "error"}]_vars
    /\ [][(EndSession /\ mediaRecorderRef \in {"null", "inactive"}) =>
            status' = "error"]_vars

\* A session saved to the device after its sessions insert failed.
C17_Witness ==
    /\ ~DEMO_MODE /\ status = "offline_saved" /\ sessionError = "saved_to_device"
    /\ savePending = 0 /\ inflight = NoCalls /\ blob = NoBlob
    /\ recorderId = 1 /\ mediaRecorderRef = "inactive"

\* A start attempt fails: before the microphone is asked for, when it is
\* denied, or after the stream was acquired.
StartRejects ==
    \/ StartSession /\ PreflightError # NoError
    \/ GetUserMediaRejected
    \/ MediaRecorderThrows

\* C18: every failed start leaves a message in the recorder's error field
\* and the session in status 'error' with that message.
C18_FailedStartIsReported ==
    [][(StartRejects /\ mounted) =>
            /\ error' # NoError
            /\ status' = "error" /\ sessionError' = error']_vars

\* The microphone was denied: the only start of the page has failed.
C18_Witness ==
    /\ starts = 1 /\ startPending = 0
    /\ error = "denied" /\ status = "error" /\ sessionError = "denied"
    /\ ~isRecording /\ liveStreams = 0

\* C19: at most one audio context is open, and a start constructs one
\* exactly when the ref holds none or a closed one.
C19_OneAudioContext ==
    /\ [](openContexts <= 1)
    /\ [][GetUserMediaResolved =>
            /\ audioContextRef' = "running"
            /\ (openContexts' = openContexts + 1) <=> (audioContextRef \in {"null", "closed"})
            /\ openContexts' \in {openContexts, openContexts + 1}]_vars

\* The second recorder of the page runs on the context the first one opened.
C19_Witness ==
    /\ recorderId = 2 /\ mediaRecorderRef = "recording"
    /\ audioContextRef = "running" /\ openContexts = 1
    /\ mounted

\* C20: the events of a session are in temporal order, and between two
\* starts the laugh count never shrinks and grows by exactly one at each
\* detection, which the shown count follows.
C20_EventsInOrderCountGrows ==
    /\ [](Len(events) = 2 =>
            /\ events[1].since <= events[2].since
            /\ events[1].at <= events[2].at)
    /\ [][~GetUserMediaResolved => laughCountRef' >= laughCountRef]_vars
    /\ [][(RunTick /\ lastLaughTimeRef' # lastLaughTimeRef) =>
            /\ laughCountRef' = laughCountRef + 1
            /\ laughCount' = laughCountRef'
            /\ events' = Remember(events, [at |-> clock', since |-> events'[Len(events')].since])]_vars
    /\ [][(RunTick /\ lastLaughTimeRef' = lastLaughTimeRef) =>
            (laughCountRef' = laughCountRef /\ events' = events)]_vars

\* The second laugh of a session has just been counted.
C20_Witness ==
    /\ laughCountRef = 2 /\ laughCount = 2 /\ Len(events) = 2
    /\ events[2].at = clock /\ events[1].at < events[2].at
    /\ events[1].since < events[2].since

\* ------------------------------------------- properties of the extractor

\* The window of clipSamples samples that starts at sample `start` (0-based)
\* of every channel of the source.
Window(sourceBuffer, start, clipSamples) ==
    [c \in 1..numberOfChannels(sourceBuffer) |->
        SubSeq(sourceBuffer.channelData[c], start + 1, start + clipSamples)]

\* C21: whatever the source length, the sample rate and the laugh time,
\* extractClipSegment returns null or a segment of exactly
\* clipDurationSamples samples per channel, which are the samples of one
\* window lying inside the source: no padding, no read outside the source.
C21_SegmentIsWindowOfSource ==
    (extracting = "done" /\ clipBuffer # NoBuffer) =>
        LET clipSamples == clipDurationSamples(audioBuffer.sampleRate)
        IN  /\ clipBuffer.sampleRate = audioBuffer.sampleRate
            /\ numberOfChannels(clipBuffer) = numberOfChannels(audioBuffer)
            /\ \A c \in 1..numberOfChannels(clipBuffer) :
                    /\ Len(clipBuffer.channelData[c]) = clipSamples
                    /\ \A i \in 1..clipSamples : clipBuffer.channelData[c][i] # NaN
            /\ \E start \in 0..(length(audioBuffer) - clipSamples) :
                    clipBuffer.channelData = Window(audioBuffer, start, clipSamples)

\* A laugh at or after the end of a stereo source longer than a clip got a
\* segment.
C21_Witness ==
    /\ extracting = "done" /\ clipBuffer # NoBuffer
    /\ numberOfChannels(audioBuffer) = 2
    /\ length(audioBuffer) > clipDurationSamples(audioBuffer.sampleRate)
    /\ centerSample(audioBuffer.sampleRate, timestampMs) >= length(audioBuffer)

Clamp(x, lo, hi) == IF x < lo THEN lo ELSE IF x > hi THEN hi ELSE x

peakOfAll(buffer) ==
    LET peaks == {peakOf(buffer.channelData[c]) : c \in 1..numberOfChannels(buffer)}
    IN  CHOOSE p \in peaks : \A q \in peaks : q <= p
\* The quotient `scaled` is sample * gain.
IsTimes(scaled, sample, gain) ==
    scaled.num * gain.den = sample * gain.num * scaled.den

\* C24: normalizeAudio applies one gain, min(target / peak, 1.0) for the
\* peak over all channels, to every sample of every channel; a segment of
\* peak 1.0 has every sample of every channel scaled by 10^(-3/20).
C24_OneGainForAllChannels ==
    extracting = "done" =>
        \A c \in 1..numberOfChannels(clipBuffer) :
            \A i \in 1..length(clipBuffer) :
                IsTimes(normalizedBuffer.channelData[c][i],
                        clipBuffer.channelData[c][i],
                        gainFor(peakOfAll(clipBuffer)))

\* The buffer whose samples are those of `buffer`, each times 1.
Unchanged(buffer) ==
    [sampleRate |-> buffer.sampleRate,
     channelData |->
        [c \in 1..numberOfChannels(buffer) |->
            [i \in 1..length(buffer) |->
                Times(buffer.channelData[c][i], [num |-> 1, den |-> 1])]]]

Survivors == {k \in 1..Len(scored) : scored[k].score >= MIN_YAMNET_SCORE}

\* C26: the selected clip has the maximum score of the candidates at or
\* above the floor and, among those of that score, the earliest timestamp,
\* in whatever order the laughs were supplied.
C26_BestScoreEarliestOnTie ==
    (extracting = "done" /\ clip # NoClip) =>
        /\ \E k \in Survivors :
                scored[k].score = clip.yamnetScore /\ scored[k].timestamp = clip.timestamp
        /\ \A k \in Survivors :
                /\ scored[k].score <= clip.yamnetScore
                /\ scored[k].score = clip.yamnetScore =>
                        clip.timestamp <= scored[k].timestamp

C28_ScoresInUnitInterval ==
    /\ \A k \in 1..Len(scored) : scored[k].score \in 0..10
    /\ \A k \in 1..Len(candidates) : candidates[k].score \in 0..10
    /\ clip.yamnetScore \in 0..10

\* C29: while no model is loaded every candidate scores 0, scoring starts
\* no load, and the call ends with null.
C29_UnloadedModelGivesNone ==
    /\ [](model = "null" =>
            /\ \A k \in 1..Len(scored) : scored[k].score = 0
            /\ extracting # "exporting"
            /\ extracting = "done" => clip = NoClip)
    /\ [][ScoreSettled => UNCHANGED yamnetVars]_vars
    /\ [][(ScoreSettled /\ model = "null") =>
            /\ scored'[Len(scored) + 1].score = 0
            /\ candidates' = NoCandidates]_vars

\* Without a model and without a load started, two laughs of a recording
\* long enough were scored and the call ended with null.
C29_Witness ==
    /\ extracting = "done" /\ model = "null" /\ ~isLoading
    /\ audioBuffer # NoBuffer
    /\ length(audioBuffer) > clipDurationSamples(audioBuffer.sampleRate)
    /\ Len(scored) = 2 /\ scored[1].outcome = "scored" /\ scored[2].outcome = "scored"
    /\ clip = NoClip

\* C30: a laugh whose extraction gave no segment, or whose scoring threw,
\* is the only one excluded: every laugh of the list goes through the loop,
\* a failed one counts as 0, and a later candidate at or above the floor is
\* still selected.
C30_FailureExcludesOneCandidate ==
    (extracting = "done" /\ audioBuffer # NoBuffer
        /\ length(audioBuffer) >= clipDurationSamples(audioBuffer.sampleRate)) =>
        /\ Len(scored) = Len(laughTimestamps)
        /\ \A k \in 1..Len(scored) :
                /\ scored[k].timestamp = laughTimestamps[k]
                /\ scored[k].outcome \in {"none", "threw"} => scored[k].score = 0
                /\ (scored[k].score >= MIN_YAMNET_SCORE
                        /\ \E j \in 1..(k - 1) : scored[j].outcome \in {"none", "threw"}) =>
                        (clip # NoClip /\ clip.yamnetScore >= scored[k].score)

\* The first laugh got no segment, the scoring of the second threw, and the
\* third, scored 0.9, is the clip.
C30_Witness ==
    /\ extracting = "done" /\ Len(scored) = 3
    /\ scored[1].outcome = "none" /\ scored[2].outcome = "threw"
    /\ scored[3].outcome = "scored" /\ scored[3].score = 9
    /\ clip.yamnetScore = 9 /\ clip.timestamp = scored[3].timestamp

\* C31: while a segment is with the scorer, it has been through
\* normalizeAudio: the buffer handed to scoreClip is the normalized one.
C31_NormalizedBeforeScored ==
    extracting = "scoring" =>
        /\ normalizedBuffer # NoBuffer
        /\ normalizedBuffer = normalizeAudio(clipBuffer)

\* Persistence calls of endSession in flight: the first step (the upload,
\* or the local save of demo mode) and every later one.
Persisting == savePending > 0 \/ inflight # NoCalls

\* The savePendingUpload calls of endSession's catch block in flight.
Backups(calls) ==
    calls[<<"savePendingUpload", "upload">>] + calls[<<"savePendingUpload", "sessions">>]
    + calls[<<"savePendingUpload", "recordings">>] + calls[<<"savePendingUpload", "local">>]

\* A call of the kind a is made in this step.
Begun(a) == inflight'[a] > inflight[a]

\* A persistence call is made in this step, or one returns.
SomeBegun == \E a \in Awaits : Begun(a)
SomeSettled == savePending' < savePending \/ \E a \in Awaits : inflight'[a] < inflight[a]

\* C34: the first persistence call of endSession is made by the
\* continuation of `await recorder.stopRecording()`, at a stop event, with
\* the artifact that event produced; every later call is made by the
\* continuation of an earlier one; while a call is in flight the artifact
\* exists, and on a page with one session so far the recorder is inactive
\* with its stop event behind it.
C34_PersistenceAfterStop ==
    /\ [][savePending' > savePending =>
            /\ stopPending > 0 /\ stopPending' = stopPending - 1
            /\ \E r \in stopping : stopping' = stopping \ {r}
            /\ blob' = chunksRef /\ blob' # NoBlob]_vars
    /\ [][SomeBegun => (SomeSettled /\ UNCHANGED <<stopPending, stopping>>)]_vars
    /\ [](Persisting => blob # NoBlob)
    /\ []((Persisting /\ starts = 1) =>
            /\ mediaRecorderRef = "inactive"
            /\ stopping = {} /\ stopPending = 0)

\* The session's upload is in flight, with the chunk the recorder emitted
\* before its stop event.
C34_Witness ==
    /\ savePending = 1 /\ stopPending = 0 /\ status = "uploading"
    /\ mediaRecorderRef = "inactive" /\ stopping = {}
    /\ Len(blob) > 0 /\ blob # NoBlob

\* The persistence calls of endSession in flight, all kinds together.
Calls == savePending + inflight[<<"sessions", NoError>>]
            + inflight[<<"recordings", NoError>>] + Backups(inflight)

\* C37: on a page with Supabase credentials the sessions insert is begun
\* only by an upload that returned and the recordings insert only by a
\* sessions insert that returned, neither together with a local save; a
\* local save is begun only by a remote step that returned, one save for
\* that step, with no further remote step; 'completed' is reported by a
\* recordings insert that returned, with no call made; nothing follows a
\* local save; and a page with one session so far has one call in flight at
\* a time.
C37_RemoteWritesInOrder ==
    /\ [][(~DEMO_MODE /\ Begun(<<"sessions", NoError>>)) =>
            /\ savePending' = savePending - 1
            /\ inflight' = Await(inflight, <<"sessions", NoError>>)]_vars
    /\ [][(~DEMO_MODE /\ Begun(<<"recordings", NoError>>)) =>
            inflight' = Await(Settle(inflight, <<"sessions", NoError>>),
                              <<"recordings", NoError>>)]_vars
    /\ [][(~DEMO_MODE /\ Backups(inflight') > Backups(inflight)) =>
            /\ sessionId # 0
            /\ \/ /\ savePending' = savePending - 1
                  /\ inflight' = Await(inflight, <<"savePendingUpload", "upload">>)
               \/ /\ savePending' = savePending
                  /\ inflight' = Await(Settle(inflight, <<"sessions", NoError>>),
                                       <<"savePendingUpload", "sessions">>)
               \/ /\ savePending' = savePending
                  /\ inflight' = Await(Settle(inflight, <<"recordings", NoError>>),
                                       <<"savePendingUpload", "recordings">>)]_vars
    /\ [][(~DEMO_MODE /\ Reports("completed")) =>
            /\ inflight' = Settle(inflight, <<"recordings", NoError>>)
            /\ savePending' = savePending]_vars
    /\ [][(~DEMO_MODE /\ Backups(inflight') < Backups(inflight)) =>
            /\ savePending' = savePending
            /\ \E a \in Awaits : a[1] = "savePendingUpload" /\ inflight' = Settle(inflight, a)]_vars
    /\ []((~DEMO_MODE /\ starts = 1) => Calls <= 1)

\* Upload and sessions insert succeeded, the recordings insert failed: the
\* one local save of the session is in flight.
C37_Witness ==
    /\ ~DEMO_MODE /\ sessionId # 0 /\ status = "uploading"
    /\ inflight = Await(NoCalls, <<"savePendingUpload", "recordings">>)
    /\ savePending = 0 /\ blob # NoBlob

\* C38: once the session is 'completed' or 'offline_saved', a further
\* endSession, pauseSession or resumeSession call leaves the status as it
\* is and starts no persistence call.
C38_FinishedStatusStays ==
    [][(status \in {"completed", "offline_saved"}
            /\ (EndSession \/ PauseSession \/ ResumeSession)) =>
            /\ status' = status
            /\ ~Persisting']_vars

\* The handlers the buttons of SessionRecorder call, by the status under
\* which each button is rendered.
Controls(s) ==
    IF s = "idle" THEN {"startSession"}
    ELSE IF s = "recording" THEN {"pauseSession", "endSession"}
    ELSE IF s = "paused" THEN {"resumeSession", "endSession"}
    ELSE IF s \in {"completed", "offline_saved"} THEN {"startSession"}
    ELSE {}

\* C39: in every status in which no session is under way (idle, error,
\* completed, offline_saved) the screen offers a control that starts a
\* session.
C39_NewSessionAlwaysOffered ==
    status \in {"idle", "error", "completed", "offline_saved"} =>
        "startSession" \in Controls(status)

\* C35: pauseSession and resumeSession leave everything of the recorder but
\* the encoder's state and isPaused as it is: both intervals, the detector's
\* refs, the laugh count, the duration.  A paused recorder therefore has its
\* intervals running and its analyser connected, and their next callbacks
\* update the duration and run detectLaugh on the sample as on a recording
\* session.
C35_PauseLeavesSamplingRunning ==
    /\ [][(PauseSession \/ ResumeSession) =>
            UNCHANGED <<detectorVars, streamRef, analyserRef, volumeIntervalRef,
                        durationIntervalRef, startTimeRef, browserVars,
                        isRecording, duration, volume, laughCount, error,
                        contextVars, encoderVars, events>>]_vars
    /\ [](mediaRecorderRef = "paused" =>
            /\ isPaused /\ isRecording /\ analyserRef
            /\ volumeIntervalRef /\ volumeTimers > 0
            /\ durationIntervalRef /\ durationTimers > 0)
    /\ [][(mediaRecorderRef = "paused" /\ clock' # clock) =>
            /\ mediaRecorderRef' = "paused"
            /\ duration' = clock' - startTimeRef
            /\ LET r == detectLaugh(volume', clock', threshold, LAUGH_DURATION_MIN,
                                    LAUGH_COOLDOWN, loudStartTimeRef, lastLaughTimeRef,
                                    laughCountRef)
               IN  /\ laughCountRef' = r.count
                   /\ r.fired => laughCount' = laughCountRef + 1]_vars

\* A paused session in which the sample just taken fired a laugh.
C35_Witness ==
    /\ mediaRecorderRef = "paused" /\ isPaused /\ status = "paused"
    /\ volumeTimers = 1 /\ durationTimers = 1
    /\ laughCountRef >= 1 /\ laughCount = laughCountRef
    /\ lastLaughTimeRef = clock /\ duration = clock - startTimeRef /\ duration > 0
    /\ volume > threshold

\* C32: smoothedVolumeRef stays in [0, 100] and so does the volume
\* calculateVolume returns, whatever bytes the frames hold and whatever
\* smoothedVolumeRef held before; without an analyser the call returns 0
\* and leaves smoothedVolumeRef as it is.
C32_LoudnessStaysInRange ==
    /\ [](smoothedVolumeRef \in 0..(100 * Milli) /\ volume \in 0..100)
    /\ [][CalculateVolume =>
            IF analyserRef
            THEN volume' = Round(smoothedVolumeRef')
            ELSE volume' = 0 /\ UNCHANGED smoothedVolumeRef]_vars

\* From just under 100, two frames of full scale: the smoothed value is
\* back at 100 and so is the volume.
C32_Witness ==
    /\ analyserRef /\ dataArray = 255
    /\ smoothedVolumeRef = 100 * Milli /\ volume = 100
    /\ clock >= PageLoad + 2 * VOLUME_UPDATE_INTERVAL

\* C40: startSession, startRecording, endSession, the recorder's onstop
\* handler and the persistence calls leave smoothedVolumeRef as it is; every
\* sample read with an analyser, the first one of a session included, is
\* smoothed against the value the ref holds, whichever session left it.
C40_SmoothingOutlivesSession ==
    /\ [][(NextStartSession \/ GetUserMediaResolved \/ EndSession \/ RecorderStopped
            \/ SaveSettled) => UNCHANGED smoothedVolumeRef]_vars
    /\ [][(clock' # clock /\ analyserRef) =>
            LET r == calculateVolume(TRUE, smoothedVolumeRef, dataArray')
            IN  smoothedVolumeRef' = r.smoothed /\ volume' = r.volume]_vars

\* The first sample of the second session, read from a silent frame after
\* the first session was stopped: its volume is not 0.
C40_Witness ==
    /\ starts = 2 /\ recorderId = 2 /\ mediaRecorderRef = "recording"
    /\ orphans = {} /\ stopping = {} /\ stopPending = 0 /\ volumeTimers = 1
    /\ analyserRef /\ clock = startTimeRef + VOLUME_UPDATE_INTERVAL
    /\ dataArray = 0 /\ volume > 0 /\ smoothedVolumeRef > 0

\* C33: a session started, fed 5 s of constant input above the threshold
\* at one sample per 100 ms, and stopped: when it is 'completed' its
\* duration is the 5 s and at least one laugh was counted.
C33_FiveSecondsLoudGivesLaugh ==
    (status = "completed" /\ dataArray \in SteadyFrames
        /\ Scaled(dataArray) > threshold * Milli) =>
        /\ duration = MaxSteadyTicks * VOLUME_UPDATE_INTERVAL
        /\ laughCount >= 1

\* C36: a hook whose loadModel call resolved without error has the model
\* loaded; at most one fetch is in flight.
C36_ResolvedLoadMeansLoaded ==
    /\ \A h \in Hooks : loadCalls[h] = "resolved" => model = "loaded"
    /\ Cardinality({h \in Hooks : loadCalls[h] = "awaiting"}) <= 1

====
